---------------------------- MODULE Spec2Model ----------------------------
(***************************************************************************)
(* The Playground mini-games of Scrollio as a state machine.               *)
(*                                                                         *)
(* Every game engine is a set of pure transition functions over a state    *)
(* record.  Each function is an operator that takes the state record and   *)
(* the action payload and returns the new record, translated statement by  *)
(* statement from the TypeScript.  The UI holds one state value per game   *)
(* and replaces it by the function's result: that is the action.           *)
(*                                                                         *)
(* `game` is the game the screen is showing; it is fixed when the screen   *)
(* is mounted.  The other games' variables keep their INITIAL_STATE.       *)
(* JavaScript's null is the string "null", undefined is "undefined".       *)
(***************************************************************************)
EXTENDS Integers, Sequences, FiniteSets, TLC

VARIABLES game, ttt, c4, bs, rps, ng, wg, geo, mm, tw

vars == <<game, ttt, c4, bs, rps, ng, wg, geo, mm, tw>>

Null == "null"
Undefined == "undefined"

Players == {"P1", "P2"}

\* state.currentPlayer === 'P1' ? 'P2' : 'P1'
OtherPlayer(p) == IF p = "P1" THEN "P2" ELSE "P1"

(***************************************************************************)
(* TicTacToe                                                               *)
(***************************************************************************)
TTT_CELLS == 9

TTT_INITIAL_BOARD == [i \in 0..(TTT_CELLS - 1) |-> Null]

TTT_INITIAL_STATE ==
    [board |-> TTT_INITIAL_BOARD, currentPlayer |-> "P1",
     status |-> "in_progress", winner |-> Null]

WINNING_COMBINATIONS ==
    << <<0, 1, 2>>, <<3, 4, 5>>, <<6, 7, 8>>,
       <<0, 3, 6>>, <<1, 4, 7>>, <<2, 5, 8>>,
       <<0, 4, 8>>, <<2, 4, 6>> >>

\* board[index]: undefined outside the array
TTT_at(board, index) ==
    IF index \in DOMAIN board THEN board[index] ELSE Undefined

\* the for loop of checkWinner from combination k on
RECURSIVE TTT_scanCombos(_, _)
TTT_scanCombos(board, k) ==
    IF k > Len(WINNING_COMBINATIONS) THEN Null
    ELSE LET a == WINNING_COMBINATIONS[k][1]
             b == WINNING_COMBINATIONS[k][2]
             c == WINNING_COMBINATIONS[k][3]
         IN  IF board[a] # Null /\ board[a] = board[b] /\ board[a] = board[c]
             THEN board[a]
             ELSE TTT_scanCombos(board, k + 1)

\* checkWinner as it would be with the three rows missing from
\* WINNING_COMBINATIONS
TTT_checkWinner_noRows(board) ==
    LET hits == {k \in 4..Len(WINNING_COMBINATIONS) :
                    /\ board[WINNING_COMBINATIONS[k][1]] # Null
                    /\ board[WINNING_COMBINATIONS[k][1]] = board[WINNING_COMBINATIONS[k][2]]
                    /\ board[WINNING_COMBINATIONS[k][1]] = board[WINNING_COMBINATIONS[k][3]]}
    IN  IF hits = {} THEN Null
        ELSE board[WINNING_COMBINATIONS[CHOOSE k \in hits : \A o \in hits : k <= o][1]]

TTT_checkWinner(board) == TTT_scanCombos(board, 1)

TTT_checkDraw(board) == \A i \in DOMAIN board : board[i] # Null

\* makeMove as it would be without the test "state.board[index] !== null"
TTT_makeMove_overwrites(state, index) ==
    IF state.status # "in_progress" \/ index \notin DOMAIN state.board
    THEN state
    ELSE LET newBoard == [state.board EXCEPT ![index] = state.currentPlayer]
             winner == TTT_checkWinner(newBoard)
             status == IF winner # Null THEN "win"
                       ELSE IF TTT_checkDraw(newBoard) THEN "draw"
                       ELSE "in_progress"
             nextPlayer == IF winner = Null /\ ~TTT_checkDraw(newBoard)
                           THEN OtherPlayer(state.currentPlayer)
                           ELSE state.currentPlayer
         IN  [board |-> newBoard, currentPlayer |-> nextPlayer,
              status |-> status, winner |-> winner]

TTT_makeMove(state, index) ==
    IF state.status # "in_progress" \/ TTT_at(state.board, index) # Null
    THEN state
    ELSE LET newBoard == [state.board EXCEPT ![index] = state.currentPlayer]
             winner == TTT_checkWinner(newBoard)
             status == IF winner # Null THEN "win"
                       ELSE IF TTT_checkDraw(newBoard) THEN "draw"
                       ELSE "in_progress"
             nextPlayer == IF winner = Null /\ ~TTT_checkDraw(newBoard)
                           THEN OtherPlayer(state.currentPlayer)
                           ELSE state.currentPlayer
         IN  [board |-> newBoard, currentPlayer |-> nextPlayer,
              status |-> status, winner |-> winner]

(***************************************************************************)
(* ConnectFour (fourinarow)                                                *)
(***************************************************************************)
ROWS == 6
COLS == 7

C4_INITIAL_BOARD == [r \in 0..(ROWS - 1) |-> [c \in 0..(COLS - 1) |-> Null]]

C4_INITIAL_STATE ==
    [board |-> C4_INITIAL_BOARD, currentPlayer |-> "P1",
     status |-> "in_progress", winner |-> Null]

\* board[r][c] for a row r of the board: undefined outside the row
C4_at(board, r, c) ==
    IF c \in 0..(COLS - 1) THEN board[r][c] ELSE Undefined

\* the four cells starting at (r, c) in direction (dr, dc) hold the same player
C4_run(board, r, c, dr, dc) ==
    /\ board[r][c] # Null
    /\ board[r][c] = board[r + dr][c + dc]
    /\ board[r][c] = board[r + 2 * dr][c + 2 * dc]
    /\ board[r][c] = board[r + 3 * dr][c + 3 * dc]

\* one of the four nested loops of checkWinner: r from r to rMax, c from
\* cMin to cMax, row by row; the first run found, or null
RECURSIVE C4_scan(_, _, _, _, _, _, _, _)
C4_scan(board, r, c, rMax, cMin, cMax, dr, dc) ==
    IF r > rMax THEN Null
    ELSE IF c > cMax THEN C4_scan(board, r + 1, cMin, rMax, cMin, cMax, dr, dc)
    ELSE IF C4_run(board, r, c, dr, dc) THEN board[r][c]
    ELSE C4_scan(board, r, c + 1, rMax, cMin, cMax, dr, dc)

\* checkWinner as it would be without the loop over vertical runs
C4_checkWinner_noVertical(board) ==
    LET h == C4_scan(board, 0, 0, ROWS - 1, 0, COLS - 4, 0, 1)
        d == C4_scan(board, 0, 0, ROWS - 4, 0, COLS - 4, 1, 1)
        u == C4_scan(board, 3, 0, ROWS - 1, 0, COLS - 4, -1, 1)
    IN  IF h # Null THEN h
        ELSE IF d # Null THEN d
        ELSE u

C4_checkWinner(board) ==
    LET h == C4_scan(board, 0, 0, ROWS - 1, 0, COLS - 4, 0, 1)
        v == C4_scan(board, 0, 0, ROWS - 4, 0, COLS - 1, 1, 0)
        d == C4_scan(board, 0, 0, ROWS - 4, 0, COLS - 4, 1, 1)
        u == C4_scan(board, 3, 0, ROWS - 1, 0, COLS - 4, -1, 1)
    IN  IF h # Null THEN h
        ELSE IF v # Null THEN v
        ELSE IF d # Null THEN d
        ELSE u

\* checkDraw as it would be with `some` in place of `every`
C4_checkDraw_someTopCell(board) == \E c \in 0..(COLS - 1) : board[0][c] # Null

\* checkDraw as it would be reading the bottom row, board[ROWS - 1]
C4_checkDraw_bottomRow(board) == \A c \in 0..(COLS - 1) : board[ROWS - 1][c] # Null

\* If top row is full, board is full (since pieces stack)
C4_checkDraw(board) == \A c \in 0..(COLS - 1) : board[0][c] # Null

\* the loop "for (let r = ROWS - 1; r >= 0; r--)" from row r on
RECURSIVE C4_findRow(_, _, _)
C4_findRow(board, colIndex, r) ==
    IF r < 0 THEN -1
    ELSE IF C4_at(board, r, colIndex) = Null THEN r
    ELSE C4_findRow(board, colIndex, r - 1)

\* the loop "for (let r = 0; r < ROWS; r++)" from row r on: the column is
\* searched from the top
RECURSIVE C4_findRowFromTop(_, _, _)
C4_findRowFromTop(board, colIndex, r) ==
    IF r > ROWS - 1 THEN -1
    ELSE IF C4_at(board, r, colIndex) = Null THEN r
    ELSE C4_findRowFromTop(board, colIndex, r + 1)

\* makeMove as it would be with the column searched from the top
C4_makeMove_fromTop(state, colIndex) ==
    IF state.status # "in_progress" THEN state
    ELSE LET rowIndex == C4_findRowFromTop(state.board, colIndex, 0)
         IN  IF rowIndex = -1 THEN state
             ELSE LET newBoard == [state.board EXCEPT
                                     ![rowIndex][colIndex] = state.currentPlayer]
                      winner == C4_checkWinner(newBoard)
                      status == IF winner # Null THEN "win"
                                ELSE IF C4_checkDraw(newBoard) THEN "draw"
                                ELSE "in_progress"
                      nextPlayer == IF winner = Null /\ ~C4_checkDraw(newBoard)
                                    THEN OtherPlayer(state.currentPlayer)
                                    ELSE state.currentPlayer
                  IN  [board |-> newBoard, currentPlayer |-> nextPlayer,
                       status |-> status, winner |-> winner]

\* makeMove as it would be with nextPlayer always state.currentPlayer
C4_makeMove_keepsTurn(state, colIndex) ==
    IF state.status # "in_progress" THEN state
    ELSE LET rowIndex == C4_findRow(state.board, colIndex, ROWS - 1)
         IN  IF rowIndex = -1 THEN state
             ELSE LET newBoard == [state.board EXCEPT
                                     ![rowIndex][colIndex] = state.currentPlayer]
                      winner == C4_checkWinner(newBoard)
                      status == IF winner # Null THEN "win"
                                ELSE IF C4_checkDraw(newBoard) THEN "draw"
                                ELSE "in_progress"
                  IN  [board |-> newBoard, currentPlayer |-> state.currentPlayer,
                       status |-> status, winner |-> winner]

C4_makeMove(state, colIndex) ==
    IF state.status # "in_progress" THEN state
    ELSE LET rowIndex == C4_findRow(state.board, colIndex, ROWS - 1)
         IN  IF rowIndex = -1 THEN state
             ELSE LET newBoard == [state.board EXCEPT
                                     ![rowIndex][colIndex] = state.currentPlayer]
                      winner == C4_checkWinner(newBoard)
                      status == IF winner # Null THEN "win"
                                ELSE IF C4_checkDraw(newBoard) THEN "draw"
                                ELSE "in_progress"
                      nextPlayer == IF winner = Null /\ ~C4_checkDraw(newBoard)
                                    THEN OtherPlayer(state.currentPlayer)
                                    ELSE state.currentPlayer
                  IN  [board |-> newBoard, currentPlayer |-> nextPlayer,
                       status |-> status, winner |-> winner]

(***************************************************************************)
(* Battleship                                                              *)
(*                                                                         *)
(* A grid is a function row -> (col -> CellStatus).  A ship's optional     *)
(* `position` is a sequence: <<>> when absent, <<[row, col, orientation]>> *)
(* when set.  `ships` is a sequence, so index k here is index k - 1 in     *)
(* the source.                                                             *)
(***************************************************************************)
GRID_SIZE == 6

BS_Ship(id, name, size) ==
    [id |-> id, name |-> name, size |-> size, hits |-> 0, placed |-> FALSE,
     position |-> <<>>]

INITIAL_SHIPS ==
    << BS_Ship("carrier", "Carrier", 4),
       BS_Ship("battleship", "Battleship", 3),
       BS_Ship("cruiser", "Cruiser", 3),
       BS_Ship("destroyer", "Destroyer", 2),
       BS_Ship("submarine", "Submarine", 2) >>

createEmptyGrid ==
    [r \in 0..(GRID_SIZE - 1) |-> [c \in 0..(GRID_SIZE - 1) |-> "empty"]]

createInitialPlayerState ==
    [grid |-> createEmptyGrid, ships |-> INITIAL_SHIPS, shots |-> createEmptyGrid]

BS_INITIAL_STATE ==
    [board |-> Null, currentPlayer |-> "P1", status |-> "in_progress",
     winner |-> Null, mode |-> "multiplayer", phase |-> "setup_p1",
     p1 |-> createInitialPlayerState, p2 |-> createInitialPlayerState,
     lastActionMessage |-> "Player 1: Place your ships!",
     setup |-> [selectedShipId |-> Null, orientation |-> "horizontal"]]

BS_startNewGame == BS_INITIAL_STATE

\* (r, c) is one of the `size` cells from (row, col) in direction `orientation`
BS_inSpan(r, c, row, col, orientation, size) ==
    IF orientation = "horizontal"
    THEN r = row /\ c >= col /\ c < col + size
    ELSE c = col /\ r >= row /\ r < row + size

\* for (let i = 0; i < size; i++) grid[row][col + i] = value   (or [row + i][col])
BS_writeSpan(grid, row, col, orientation, size, value) ==
    [r \in 0..(GRID_SIZE - 1) |-> [c \in 0..(GRID_SIZE - 1) |->
        IF BS_inSpan(r, c, row, col, orientation, size) THEN value ELSE grid[r][c]]]

\* canPlaceShip as it would be without the loops that test the cells
BS_canPlaceShip_boundsOnly(grid, shipSize, row, col, orientation) ==
    IF orientation = "horizontal"
    THEN ~(col + shipSize > GRID_SIZE)
    ELSE ~(row + shipSize > GRID_SIZE)

\* canPlaceShip raises a TypeError where it reads grid[row][col + i] or
\* grid[row + i][col] and the row of the grid is undefined; after the test
\* of row + shipSize the rows of a vertical span can only be negative
BS_canPlaceShip_raises(grid, shipSize, row, col, orientation) ==
    IF orientation = "horizontal"
    THEN /\ ~(col + shipSize > GRID_SIZE)
         /\ shipSize > 0
         /\ row \notin 0..(GRID_SIZE - 1)
    ELSE /\ ~(row + shipSize > GRID_SIZE)
         /\ shipSize > 0
         /\ row \notin 0..(GRID_SIZE - 1)

BS_canPlaceShip(grid, shipSize, row, col, orientation) ==
    IF orientation = "horizontal"
    THEN /\ ~(col + shipSize > GRID_SIZE)
         /\ \A i \in 0..(shipSize - 1) : grid[row][col + i] = "empty"
    ELSE /\ ~(row + shipSize > GRID_SIZE)
         /\ \A i \in 0..(shipSize - 1) : grid[row + i][col] = "empty"

\* ships.findIndex(s => s.id === id): the first index, or -1
BS_findIndex(ships, id) ==
    IF \E k \in 1..Len(ships) : ships[k].id = id
    THEN CHOOSE k \in 1..Len(ships) :
            /\ ships[k].id = id
            /\ \A j \in 1..(k - 1) : ships[j].id # id
    ELSE -1

\* { ...state, [isP1 ? 'p1' : 'p2']: playerState }
BS_withPlayer(state, isP1, playerState) ==
    IF isP1 THEN [state EXCEPT !.p1 = playerState]
    ELSE [state EXCEPT !.p2 = playerState]

\* placeShip as it would be if the new span were tested against the grid
\* that still holds the ship's prior cells
BS_placeShip_testsOldGrid(state, row, col) ==
    IF state.phase # "setup_p1" /\ state.phase # "setup_p2" THEN state
    ELSE IF state.setup.selectedShipId = Null THEN state
    ELSE LET isP1 == state.phase = "setup_p1"
             playerState == IF isP1 THEN state.p1 ELSE state.p2
             shipIndex == BS_findIndex(playerState.ships, state.setup.selectedShipId)
         IN  IF shipIndex = -1 THEN state
             ELSE LET ship == playerState.ships[shipIndex]
                      old == ship.position[1]
                      \* If already placed, remove it first
                      newGrid == IF ship.placed /\ ship.position # <<>>
                                 THEN BS_writeSpan(playerState.grid, old.row, old.col,
                                                   old.orientation, ship.size, "empty")
                                 ELSE playerState.grid
                  IN  IF ~BS_canPlaceShip(playerState.grid, ship.size, row, col,
                                          state.setup.orientation)
                      THEN [state EXCEPT !.lastActionMessage = "Invalid placement!"]
                      ELSE LET placedGrid ==
                                   BS_writeSpan(newGrid, row, col,
                                                state.setup.orientation, ship.size, "ship")
                               newShips ==
                                   [playerState.ships EXCEPT ![shipIndex] =
                                       [ship EXCEPT !.placed = TRUE,
                                                    !.position =
                                                        <<[row |-> row, col |-> col,
                                                           orientation |->
                                                               state.setup.orientation]>>]]
                           IN  [BS_withPlayer(state, isP1,
                                    [playerState EXCEPT !.grid = placedGrid,
                                                        !.ships = newShips])
                                  EXCEPT !.lastActionMessage = Null]

\* placeShip raises when its call of canPlaceShip does
BS_placeShip_raises(state, row, col) ==
    /\ state.phase \in {"setup_p1", "setup_p2"}
    /\ state.setup.selectedShipId # Null
    /\ LET playerState == IF state.phase = "setup_p1" THEN state.p1 ELSE state.p2
           shipIndex == BS_findIndex(playerState.ships, state.setup.selectedShipId)
       IN  /\ shipIndex # -1
           /\ BS_canPlaceShip_raises(playerState.grid, playerState.ships[shipIndex].size,
                                     row, col, state.setup.orientation)

BS_placeShip(state, row, col) ==
    IF state.phase # "setup_p1" /\ state.phase # "setup_p2" THEN state
    ELSE IF state.setup.selectedShipId = Null THEN state
    ELSE LET isP1 == state.phase = "setup_p1"
             playerState == IF isP1 THEN state.p1 ELSE state.p2
             shipIndex == BS_findIndex(playerState.ships, state.setup.selectedShipId)
         IN  IF shipIndex = -1 THEN state
             ELSE LET ship == playerState.ships[shipIndex]
                      old == ship.position[1]
                      \* If already placed, remove it first
                      newGrid == IF ship.placed /\ ship.position # <<>>
                                 THEN BS_writeSpan(playerState.grid, old.row, old.col,
                                                   old.orientation, ship.size, "empty")
                                 ELSE playerState.grid
                  IN  IF ~BS_canPlaceShip(newGrid, ship.size, row, col,
                                          state.setup.orientation)
                      THEN [state EXCEPT !.lastActionMessage = "Invalid placement!"]
                      ELSE LET placedGrid ==
                                   BS_writeSpan(newGrid, row, col,
                                                state.setup.orientation, ship.size, "ship")
                               newShips ==
                                   [playerState.ships EXCEPT ![shipIndex] =
                                       [ship EXCEPT !.placed = TRUE,
                                                    !.position =
                                                        <<[row |-> row, col |-> col,
                                                           orientation |->
                                                               state.setup.orientation]>>]]
                           IN  [BS_withPlayer(state, isP1,
                                    [playerState EXCEPT !.grid = placedGrid,
                                                        !.ships = newShips])
                                  EXCEPT !.lastActionMessage = Null]

BS_selectShip(state, shipId) ==
    [state EXCEPT !.setup.selectedShipId = shipId]

BS_toggleOrientation(state) ==
    [state EXCEPT !.setup.orientation =
        IF state.setup.orientation = "horizontal" THEN "vertical" ELSE "horizontal"]

\* ships.some(s => !s.placed)
BS_someUnplaced(ships) == \E k \in 1..Len(ships) : ~ships[k].placed

\* finishSetup as it would be without the tests of ships.some(s => !s.placed)
BS_finishSetup_unchecked(state) ==
    IF state.phase = "setup_p1"
    THEN [state EXCEPT !.phase = "setup_p2",
                       !.currentPlayer = "P2",
                       !.lastActionMessage = "Player 2: Place your ships!",
                       !.setup = [selectedShipId |-> Null,
                                  orientation |-> "horizontal"]]
    ELSE IF state.phase = "setup_p2"
    THEN [state EXCEPT !.phase = "in_progress",
                       !.currentPlayer = "P1",
                       !.lastActionMessage = "Game Started! Player 1 turn."]
    ELSE state

\* finishSetup as it would be starting the game when Player 1 is done
BS_finishSetup_skipsPlayer2(state) ==
    IF state.phase = "setup_p1"
    THEN IF BS_someUnplaced(state.p1.ships)
         THEN [state EXCEPT !.lastActionMessage = "Place all ships first!"]
         ELSE [state EXCEPT !.phase = "in_progress",
                            !.currentPlayer = "P1",
                            !.lastActionMessage = "Game Started! Player 1 turn."]
    ELSE IF state.phase = "setup_p2"
    THEN IF BS_someUnplaced(state.p2.ships)
         THEN [state EXCEPT !.lastActionMessage = "Place all ships first!"]
         ELSE [state EXCEPT !.phase = "in_progress",
                            !.currentPlayer = "P1",
                            !.lastActionMessage = "Game Started! Player 1 turn."]
    ELSE state

BS_finishSetup(state) ==
    IF state.phase = "setup_p1"
    THEN IF BS_someUnplaced(state.p1.ships)
         THEN [state EXCEPT !.lastActionMessage = "Place all ships first!"]
         ELSE [state EXCEPT !.phase = "setup_p2",
                            !.currentPlayer = "P2",
                            !.lastActionMessage = "Player 2: Place your ships!",
                            !.setup = [selectedShipId |-> Null,
                                       orientation |-> "horizontal"]]
    ELSE IF state.phase = "setup_p2"
    THEN IF BS_someUnplaced(state.p2.ships)
         THEN [state EXCEPT !.lastActionMessage = "Place all ships first!"]
         ELSE [state EXCEPT !.phase = "in_progress",
                            !.currentPlayer = "P1",
                            !.lastActionMessage = "Game Started! Player 1 turn."]
    ELSE state

\* `${String.fromCharCode(65 + row)}${col + 1}`, e.g. A1, B3
BS_ROW_LETTERS == <<"A", "B", "C", "D", "E", "F">>
BS_cellLabel(row, col) == BS_ROW_LETTERS[row + 1] \o ToString(col + 1)

\* "Check if this coordinate belongs to this ship"
\* isThisShip as it would be with every ship taken as horizontal
BS_isThisShip_horizontal(ship, row, col) ==
    /\ ship.position # <<>>
    /\ BS_inSpan(row, col, ship.position[1].row, ship.position[1].col,
                 "horizontal", ship.size)

BS_isThisShip(ship, row, col) ==
    /\ ship.position # <<>>
    /\ BS_inSpan(row, col, ship.position[1].row, ship.position[1].col,
                 ship.position[1].orientation, ship.size)

\* newTargetShips.map(...): every ship whose span holds the cell gets one more hit
BS_hitShips(ships, row, col) ==
    [k \in 1..Len(ships) |->
        IF BS_isThisShip(ships[k], row, col)
        THEN [ships[k] EXCEPT !.hits = ships[k].hits + 1]
        ELSE ships[k]]

\* sunkShipName after the map: the name of the last ship the shot sank, or null
BS_sunkShipName(ships, row, col) ==
    LET sunk == {k \in 1..Len(ships) :
                    /\ BS_isThisShip(ships[k], row, col)
                    /\ ships[k].hits + 1 = ships[k].size}
    IN  IF sunk = {} THEN Null
        ELSE ships[CHOOSE k \in sunk : \A j \in sunk : j <= k].name

\* newTargetShips.every(s => s.hits === s.size)
BS_allSunk(ships) == \A k \in 1..Len(ships) : ships[k].hits = ships[k].size

\* fireShot from "const isHit" on: the shot is accepted
BS_resolveShot(state, row, col) ==
    LET isP1 == state.currentPlayer = "P1"
        shooter == IF isP1 THEN state.p1 ELSE state.p2
        target == IF isP1 THEN state.p2 ELSE state.p1
        isHit == target.grid[row][col] = "ship"
        shotResult == IF isHit THEN "hit" ELSE "miss"
        cellLabel == BS_cellLabel(row, col)
        newShooterShots == [shooter.shots EXCEPT ![row][col] = shotResult]
        newTargetGrid == IF isHit
                         THEN [target.grid EXCEPT ![row][col] = "hit"]
                         ELSE target.grid
        newTargetShips == IF isHit
                          THEN BS_hitShips(target.ships, row, col)
                          ELSE target.ships
        sunkShipName == IF isHit
                        THEN BS_sunkShipName(target.ships, row, col)
                        ELSE Null
        allSunk == BS_allSunk(newTargetShips)
        message ==
            IF allSunk
            THEN state.currentPlayer \o " wins! All enemy ships sunk."
            ELSE IF ~isHit
            THEN state.currentPlayer \o " missed at " \o cellLabel \o "."
            ELSE IF sunkShipName # Null
            THEN state.currentPlayer \o " sunk "
                     \o (IF isP1 THEN "P2" ELSE "P1") \o "'s "
                     \o sunkShipName \o "!"
            ELSE state.currentPlayer \o " hit a ship at " \o cellLabel \o "!"
        newShooter == [shooter EXCEPT !.shots = newShooterShots]
        newTarget == [target EXCEPT !.grid = newTargetGrid,
                                    !.ships = newTargetShips]
    IN  [state EXCEPT
           !.phase = IF allSunk THEN "finished" ELSE state.phase,
           !.winner = IF allSunk THEN state.currentPlayer ELSE state.winner,
           !.lastActionMessage = message,
           !.currentPlayer = IF isP1 THEN "P2" ELSE "P1",
           !.p1 = IF isP1 THEN newShooter ELSE newTarget,
           !.p2 = IF isP1 THEN newTarget ELSE newShooter]

\* fireShot as it would be without the test of shooter.shots[row][col]
BS_fireShot_firesAgain(state, row, col) ==
    IF state.phase # "in_progress" THEN state
    ELSE BS_resolveShot(state, row, col)

\* fireShot as it would be without "newTargetGrid[row][col] = 'hit'"
BS_fireShot_gridUntouched(state, row, col) ==
    IF state.phase # "in_progress" THEN state
    ELSE LET isP1 == state.currentPlayer = "P1"
             shooter == IF isP1 THEN state.p1 ELSE state.p2
         IN  IF shooter.shots[row][col] # "empty"
             THEN [state EXCEPT !.lastActionMessage = "Already shot there!"]
             ELSE LET t == BS_resolveShot(state, row, col)
                  IN  IF isP1 THEN [t EXCEPT !.p2.grid = state.p2.grid]
                      ELSE [t EXCEPT !.p1.grid = state.p1.grid]

\* fireShot as it would be with the turn kept by the player who wins
BS_fireShot_winnerKeepsTurn(state, row, col) ==
    IF state.phase # "in_progress" THEN state
    ELSE LET isP1 == state.currentPlayer = "P1"
             shooter == IF isP1 THEN state.p1 ELSE state.p2
         IN  IF shooter.shots[row][col] # "empty"
             THEN [state EXCEPT !.lastActionMessage = "Already shot there!"]
             ELSE LET t == BS_resolveShot(state, row, col)
                  IN  IF t.phase = "finished"
                      THEN [t EXCEPT !.currentPlayer = state.currentPlayer]
                      ELSE t

\* fireShot as it would be if the shot were not written to the shooter's
\* shots
BS_fireShot_shotNotRecorded(state, row, col) ==
    IF state.phase # "in_progress" THEN state
    ELSE LET isP1 == state.currentPlayer = "P1"
             shooter == IF isP1 THEN state.p1 ELSE state.p2
         IN  IF shooter.shots[row][col] # "empty"
             THEN [state EXCEPT !.lastActionMessage = "Already shot there!"]
             ELSE [BS_resolveShot(state, row, col) EXCEPT
                      !.p1.shots = state.p1.shots,
                      !.p2.shots = state.p2.shots]

\* fireShot raises a TypeError where it reads shooter.shots[row][col] and
\* shots[row] is undefined
BS_fireShot_raises(state, row, col) ==
    /\ state.phase = "in_progress"
    /\ row \notin 0..(GRID_SIZE - 1)

BS_fireShot(state, row, col) ==
    IF state.phase # "in_progress" THEN state
    ELSE LET isP1 == state.currentPlayer = "P1"
             shooter == IF isP1 THEN state.p1 ELSE state.p2
         IN  IF shooter.shots[row][col] # "empty"
             THEN [state EXCEPT !.lastActionMessage = "Already shot there!"]
             ELSE BS_resolveShot(state, row, col)

(***************************************************************************)
(* Rock-Paper-Scissors.  `randomMove` is the AI's draw,                    *)
(* moves[Math.floor(Math.random() * moves.length)].                        *)
(***************************************************************************)
RPS_MOVES == <<"rock", "paper", "scissors">>

RPS_INITIAL_STATE ==
    [board |-> Null, currentPlayer |-> "P1", status |-> "in_progress",
     winner |-> Null, player1Move |-> Null, player2Move |-> Null,
     roundWinner |-> Null, mode |-> "singleplayer"]

\* determineWinner as it would be with rock and scissors exchanged in the
\* first rule
RPS_determineWinner_scissorsBeatsRock(p1, p2) ==
    IF p1 = p2 THEN "draw"
    ELSE IF \/ (p1 = "scissors" /\ p2 = "rock")
            \/ (p1 = "paper" /\ p2 = "rock")
            \/ (p1 = "scissors" /\ p2 = "paper")
    THEN "P1"
    ELSE "P2"

RPS_determineWinner(p1, p2) ==
    IF p1 = p2 THEN "draw"
    ELSE IF \/ (p1 = "rock" /\ p2 = "scissors")
            \/ (p1 = "paper" /\ p2 = "rock")
            \/ (p1 = "scissors" /\ p2 = "paper")
    THEN "P1"
    ELSE "P2"

\* the assignments as they would be if a draw left the round open
RPS_resolve_replaysDraw(newState, result) ==
    [newState EXCEPT !.roundWinner = result,
                     !.status = IF result = "draw" THEN "in_progress" ELSE "win",
                     !.winner = IF result = "draw" THEN Null ELSE result]

\* the three assignments that follow determineWinner in both branches
RPS_resolve(newState, result) ==
    [newState EXCEPT !.roundWinner = result,
                     !.status = IF result = "draw" THEN "draw" ELSE "win",
                     !.winner = IF result = "draw" THEN Null ELSE result]

\* makeMove as it would be without the test of state.mode: Player 1's move
\* is answered at once in both modes
RPS_makeMove_noModeTest(state, move, randomMove) ==
    IF state.status # "in_progress" THEN state
    ELSE IF state.currentPlayer = "P1"
    THEN RPS_resolve([state EXCEPT !.player1Move = move,
                                   !.player2Move = randomMove],
                     RPS_determineWinner(move, randomMove))
    ELSE RPS_resolve([state EXCEPT !.player2Move = move],
                     RPS_determineWinner(state.player1Move, move))

RPS_makeMove(state, move, randomMove) ==
    IF state.status # "in_progress" THEN state
    ELSE IF state.currentPlayer = "P1"
    THEN IF state.mode = "singleplayer"
         THEN RPS_resolve([state EXCEPT !.player1Move = move,
                                        !.player2Move = randomMove],
                          RPS_determineWinner(move, randomMove))
         ELSE [state EXCEPT !.player1Move = move, !.currentPlayer = "P2"]
    ELSE RPS_resolve([state EXCEPT !.player2Move = move],
                     RPS_determineWinner(state.player1Move, move))

RPS_resetGame(mode) == [RPS_INITIAL_STATE EXCEPT !.mode = mode]

(***************************************************************************)
(* NumberDuel (numberguess)                                                *)
(***************************************************************************)
NG_INITIAL_STATE ==
    [board |-> Null, currentPlayer |-> "P1", status |-> "in_progress",
     winner |-> Null, targetNumber |-> 0, minRange |-> 1, maxRange |-> 100,
     attempts |-> 0, lastGuess |-> Null, feedback |-> Null, history |-> <<>>,
     mode |-> "singleplayer"]

\* `target` is Math.floor(Math.random() * 100) + 1
NG_startNewGame(mode, target) ==
    [NG_INITIAL_STATE EXCEPT !.targetNumber = target, !.mode = mode]

\* makeGuess as it would be with the turn passed on after every guess of a
\* multiplayer game, the correct one included
NG_makeGuess_alwaysAlternates(state, guess) ==
    IF state.status # "in_progress" THEN state
    ELSE LET feedback == IF guess = state.targetNumber THEN "correct"
                         ELSE IF guess < state.targetNumber THEN "higher"
                         ELSE "lower"
             status == IF guess = state.targetNumber THEN "win" ELSE "in_progress"
             winner == IF guess = state.targetNumber THEN state.currentPlayer ELSE Null
             newHistory == Append(state.history,
                                  [player |-> state.currentPlayer, guess |-> guess,
                                   result |-> feedback])
             nextPlayer == IF state.mode = "multiplayer"
                           THEN OtherPlayer(state.currentPlayer)
                           ELSE state.currentPlayer
         IN  [state EXCEPT !.attempts = state.attempts + 1,
                           !.lastGuess = guess,
                           !.feedback = feedback,
                           !.history = newHistory,
                           !.status = status,
                           !.winner = winner,
                           !.currentPlayer = nextPlayer]

\* makeGuess as it would be with the two hints exchanged
NG_makeGuess_swappedHints(state, guess) ==
    IF state.status # "in_progress" THEN state
    ELSE LET feedback == IF guess = state.targetNumber THEN "correct"
                         ELSE IF guess < state.targetNumber THEN "lower"
                         ELSE "higher"
             status == IF guess = state.targetNumber THEN "win" ELSE "in_progress"
             winner == IF guess = state.targetNumber THEN state.currentPlayer ELSE Null
             newHistory == Append(state.history,
                                  [player |-> state.currentPlayer, guess |-> guess,
                                   result |-> feedback])
             nextPlayer == IF status = "in_progress" /\ state.mode = "multiplayer"
                           THEN OtherPlayer(state.currentPlayer)
                           ELSE state.currentPlayer
         IN  [state EXCEPT !.attempts = state.attempts + 1,
                           !.lastGuess = guess,
                           !.feedback = feedback,
                           !.history = newHistory,
                           !.status = status,
                           !.winner = winner,
                           !.currentPlayer = nextPlayer]

\* makeGuess as it would be with the turn passed on in singleplayer games too
NG_makeGuess_ignoresMode(state, guess) ==
    IF state.status # "in_progress" THEN state
    ELSE LET feedback == IF guess = state.targetNumber THEN "correct"
                         ELSE IF guess < state.targetNumber THEN "higher"
                         ELSE "lower"
             status == IF guess = state.targetNumber THEN "win" ELSE "in_progress"
             winner == IF guess = state.targetNumber THEN state.currentPlayer ELSE Null
             newHistory == Append(state.history,
                                  [player |-> state.currentPlayer, guess |-> guess,
                                   result |-> feedback])
             nextPlayer == IF status = "in_progress"
                           THEN OtherPlayer(state.currentPlayer)
                           ELSE state.currentPlayer
         IN  [state EXCEPT !.attempts = state.attempts + 1,
                           !.lastGuess = guess,
                           !.feedback = feedback,
                           !.history = newHistory,
                           !.status = status,
                           !.winner = winner,
                           !.currentPlayer = nextPlayer]

NG_makeGuess(state, guess) ==
    IF state.status # "in_progress" THEN state
    ELSE LET feedback == IF guess = state.targetNumber THEN "correct"
                         ELSE IF guess < state.targetNumber THEN "higher"
                         ELSE "lower"
             status == IF guess = state.targetNumber THEN "win" ELSE "in_progress"
             winner == IF guess = state.targetNumber THEN state.currentPlayer ELSE Null
             newHistory == Append(state.history,
                                  [player |-> state.currentPlayer, guess |-> guess,
                                   result |-> feedback])
             nextPlayer == IF status = "in_progress" /\ state.mode = "multiplayer"
                           THEN OtherPlayer(state.currentPlayer)
                           ELSE state.currentPlayer
         IN  [state EXCEPT !.attempts = state.attempts + 1,
                           !.lastGuess = guess,
                           !.feedback = feedback,
                           !.history = newHistory,
                           !.status = status,
                           !.winner = winner,
                           !.currentPlayer = nextPlayer]

(***************************************************************************)
(* Hangman (wordguess).  A word is the sequence of its characters.         *)
(***************************************************************************)
TURKISH_WORDS ==
    << <<"E", "L", "M", "A">>, <<"A", "R", "M", "U", "T">>,
       <<"K", "A", "L", "E", "M">>, <<"K", "I", "T", "A", "P">>,
       <<"B", "I", "L", "G", "I", "S", "A", "Y", "A", "R">>,
       <<"T", "E", "L", "E", "F", "O", "N">>, <<"M", "A", "S", "A">>,
       <<"S", "A", "N", "D", "A", "L", "Y", "E">>, <<"A", "R", "A", "B", "A">>,
       <<"O", "T", "O", "B", "U", "S">>,
       <<"I", "S", "T", "A", "N", "B", "U", "L">>,
       <<"A", "N", "K", "A", "R", "A">>, <<"I", "Z", "M", "I", "R">>,
       <<"T", "U", "R", "K", "I", "Y", "E">>, <<"D", "E", "N", "I", "Z">> >>

MAX_ATTEMPTS == 6

WG_INITIAL_STATE ==
    [board |-> <<>>, currentPlayer |-> "P1", status |-> "in_progress",
     winner |-> Null, targetWord |-> <<>>, guessedLetters |-> <<>>,
     remainingAttempts |-> MAX_ATTEMPTS, maxAttempts |-> MAX_ATTEMPTS,
     mode |-> "singleplayer"]

\* `word` is getRandomWord()
WG_startNewGame(word) == [WG_INITIAL_STATE EXCEPT !.targetWord = word]

LOWER_CASE == <<"a", "b", "c", "d", "e", "f", "g", "h", "i", "j", "k", "l", "m",
                "n", "o", "p", "q", "r", "s", "t", "u", "v", "w", "x", "y", "z">>
UPPER_CASE == <<"A", "B", "C", "D", "E", "F", "G", "H", "I", "J", "K", "L", "M",
                "N", "O", "P", "Q", "R", "S", "T", "U", "V", "W", "X", "Y", "Z">>

\* String.prototype.toUpperCase on one character
toUpperCase(ch) ==
    IF \E k \in 1..Len(LOWER_CASE) : LOWER_CASE[k] = ch
    THEN UPPER_CASE[CHOOSE k \in 1..Len(LOWER_CASE) : LOWER_CASE[k] = ch]
    ELSE ch

\* Array.prototype.includes / String.prototype.includes for one character
includes(seq, x) == \E k \in 1..Len(seq) : seq[k] = x

\* makeGuess as it would be if every finished game named P1 the winner
WG_makeGuess_winnerOnLoss(state, letter) ==
    IF state.status # "in_progress" THEN state
    ELSE LET upperLetter == toUpperCase(letter)
         IN  IF includes(state.guessedLetters, upperLetter) THEN state
             ELSE LET newGuessedLetters == Append(state.guessedLetters, upperLetter)
                      newRemainingAttempts ==
                          IF ~includes(state.targetWord, upperLetter)
                          THEN state.remainingAttempts - 1
                          ELSE state.remainingAttempts
                      isWin == \A k \in 1..Len(state.targetWord) :
                                   includes(newGuessedLetters, state.targetWord[k])
                      isLoss == newRemainingAttempts <= 0
                      status == IF isLoss THEN "lose"
                                ELSE IF isWin THEN "win"
                                ELSE "in_progress"
                  IN  [state EXCEPT !.guessedLetters = newGuessedLetters,
                                    !.remainingAttempts = newRemainingAttempts,
                                    !.status = status,
                                    !.winner = IF isWin \/ isLoss THEN "P1" ELSE Null]

\* makeGuess as it would be without the test for an already guessed letter
WG_makeGuess_countsRepeats(state, letter) ==
    IF state.status # "in_progress" THEN state
    ELSE LET upperLetter == toUpperCase(letter)
         IN  IF FALSE THEN state
             ELSE LET newGuessedLetters == Append(state.guessedLetters, upperLetter)
                      newRemainingAttempts ==
                          IF ~includes(state.targetWord, upperLetter)
                          THEN state.remainingAttempts - 1
                          ELSE state.remainingAttempts
                      isWin == \A k \in 1..Len(state.targetWord) :
                                   includes(newGuessedLetters, state.targetWord[k])
                      isLoss == newRemainingAttempts <= 0
                      status == IF isLoss THEN "lose"
                                ELSE IF isWin THEN "win"
                                ELSE "in_progress"
                  IN  [state EXCEPT !.guessedLetters = newGuessedLetters,
                                    !.remainingAttempts = newRemainingAttempts,
                                    !.status = status,
                                    !.winner = IF isWin THEN "P1" ELSE Null]

\* makeGuess as it would be if the letter as typed were looked up in the word
WG_makeGuess_caseSensitive(state, letter) ==
    IF state.status # "in_progress" THEN state
    ELSE LET upperLetter == toUpperCase(letter)
         IN  IF includes(state.guessedLetters, upperLetter) THEN state
             ELSE LET newGuessedLetters == Append(state.guessedLetters, upperLetter)
                      newRemainingAttempts ==
                          IF ~includes(state.targetWord, letter)
                          THEN state.remainingAttempts - 1
                          ELSE state.remainingAttempts
                      isWin == \A k \in 1..Len(state.targetWord) :
                                   includes(newGuessedLetters, state.targetWord[k])
                      isLoss == newRemainingAttempts <= 0
                      status == IF isLoss THEN "lose"
                                ELSE IF isWin THEN "win"
                                ELSE "in_progress"
                  IN  [state EXCEPT !.guessedLetters = newGuessedLetters,
                                    !.remainingAttempts = newRemainingAttempts,
                                    !.status = status,
                                    !.winner = IF isWin THEN "P1" ELSE Null]

\* makeGuess as it would be if a win needed as many right letters as the word has positions
WG_makeGuess_countsPositions(state, letter) ==
    IF state.status # "in_progress" THEN state
    ELSE LET upperLetter == toUpperCase(letter)
         IN  IF includes(state.guessedLetters, upperLetter) THEN state
             ELSE LET newGuessedLetters == Append(state.guessedLetters, upperLetter)
                      newRemainingAttempts ==
                          IF ~includes(state.targetWord, upperLetter)
                          THEN state.remainingAttempts - 1
                          ELSE state.remainingAttempts
                      isWin == Cardinality({k \in 1..Len(newGuessedLetters) :
                                      includes(state.targetWord, newGuessedLetters[k])})
                                   >= Len(state.targetWord)
                      isLoss == newRemainingAttempts <= 0
                      status == IF isLoss THEN "lose"
                                ELSE IF isWin THEN "win"
                                ELSE "in_progress"
                  IN  [state EXCEPT !.guessedLetters = newGuessedLetters,
                                    !.remainingAttempts = newRemainingAttempts,
                                    !.status = status,
                                    !.winner = IF isWin THEN "P1" ELSE Null]

WG_makeGuess(state, letter) ==
    IF state.status # "in_progress" THEN state
    ELSE LET upperLetter == toUpperCase(letter)
         IN  IF includes(state.guessedLetters, upperLetter) THEN state
             ELSE LET newGuessedLetters == Append(state.guessedLetters, upperLetter)
                      newRemainingAttempts ==
                          IF ~includes(state.targetWord, upperLetter)
                          THEN state.remainingAttempts - 1
                          ELSE state.remainingAttempts
                      isWin == \A k \in 1..Len(state.targetWord) :
                                   includes(newGuessedLetters, state.targetWord[k])
                      isLoss == newRemainingAttempts <= 0
                      status == IF isLoss THEN "lose"
                                ELSE IF isWin THEN "win"
                                ELSE "in_progress"
                  IN  [state EXCEPT !.guessedLetters = newGuessedLetters,
                                    !.remainingAttempts = newRemainingAttempts,
                                    !.status = status,
                                    !.winner = IF isWin THEN "P1" ELSE Null]

(***************************************************************************)
(* GeoQuiz (tinygeoguess)                                                  *)
(***************************************************************************)
GEO_Location(id, name, image, options) ==
    [id |-> id, name |-> name, image |-> image, options |-> options]

LOCATIONS ==
    << GEO_Location("1", "Paris", "photo-1502602898657-3e91760cbb34",
                    <<"London", "Paris", "Berlin", "Madrid">>),
       GEO_Location("2", "New York", "photo-1496442226666-8d4d0e62e6e9",
                    <<"Chicago", "New York", "Toronto", "Sydney">>),
       GEO_Location("3", "Tokyo", "photo-1503899036084-c55cdd92da26",
                    <<"Seoul", "Beijing", "Tokyo", "Bangkok">>),
       GEO_Location("4", "Sydney", "photo-1506973035872-a4ec16b8e8d9",
                    <<"Melbourne", "Sydney", "Auckland", "Vancouver">>),
       GEO_Location("5", "Rome", "photo-1552832230-c0197dd311b5",
                    <<"Rome", "Athens", "Istanbul", "Cairo">>) >>

TOTAL_ROUNDS == 5

GEO_INITIAL_STATE ==
    [board |-> Null, currentPlayer |-> "P1", status |-> "in_progress",
     winner |-> Null, currentLocation |-> LOCATIONS[1], score |-> 0, round |-> 1,
     totalRounds |-> TOTAL_ROUNDS, lastResult |-> Null, mode |-> "singleplayer"]

\* `first` is shuffled[0]
GEO_startNewGame(first) == [GEO_INITIAL_STATE EXCEPT !.currentLocation = first]

\* makeGuess as it would be if the game ended when round reached totalRounds
GEO_makeGuess_endsEarly(state, guess, nextLocation) ==
    IF state.status # "in_progress" THEN state
    ELSE LET isCorrect == guess = state.currentLocation.name
             newScore == IF isCorrect THEN state.score + 1 ELSE state.score
             nextRound == state.round + 1
             over == nextRound >= state.totalRounds
         IN  [state EXCEPT !.score = newScore,
                           !.round = nextRound,
                           !.lastResult = IF isCorrect THEN "correct" ELSE "wrong",
                           !.status = IF over THEN "win" ELSE "in_progress",
                           !.winner = IF over THEN "P1" ELSE Null,
                           !.currentLocation = nextLocation]

\* `nextLocation` is LOCATIONS[Math.floor(Math.random() * LOCATIONS.length)]
GEO_makeGuess(state, guess, nextLocation) ==
    IF state.status # "in_progress" THEN state
    ELSE LET isCorrect == guess = state.currentLocation.name
             newScore == IF isCorrect THEN state.score + 1 ELSE state.score
             nextRound == state.round + 1
             over == nextRound > state.totalRounds
         IN  [state EXCEPT !.score = newScore,
                           !.round = nextRound,
                           !.lastResult = IF isCorrect THEN "correct" ELSE "wrong",
                           !.status = IF over THEN "win" ELSE "in_progress",
                           !.winner = IF over THEN "P1" ELSE Null,
                           !.currentLocation = nextLocation]

(***************************************************************************)
(* MemoryMatch.  The board is a function index -> Card over 0..15.         *)
(***************************************************************************)
EMOJIS == <<"dog", "cat", "mouse", "hamster", "rabbit", "fox", "bear", "panda">>

MM_INITIAL_STATE ==
    [board |-> <<>>, currentPlayer |-> "P1", status |-> "in_progress",
     winner |-> Null, movesCount |-> 0, flippedIndices |-> <<>>,
     mode |-> "singleplayer"]

\* the cards pushed by EMOJIS.forEach, before the shuffle
MM_unshuffled ==
    [i \in 0..(2 * Len(EMOJIS) - 1) |->
        [id |-> "card-" \o ToString(i \div 2) \o (IF i % 2 = 0 THEN "-a" ELSE "-b"),
         value |-> EMOJIS[(i \div 2) + 1], isFlipped |-> FALSE, isMatched |-> FALSE]]

\* [cards[i], cards[j]] = [cards[j], cards[i]]
MM_swap(cards, i, j) == [cards EXCEPT ![i] = cards[j], ![j] = cards[i]]

\* the Fisher-Yates loop from index i down to 1; draws[i] is the value of
\* Math.floor(Math.random() * (i + 1)) in the iteration for i
RECURSIVE MM_fisherYates(_, _, _)
MM_fisherYates(cards, draws, i) ==
    IF i <= 0 THEN cards
    ELSE MM_fisherYates(MM_swap(cards, i, draws[i]), draws, i - 1)

MM_shuffleCards(draws) == MM_fisherYates(MM_unshuffled, draws, 2 * Len(EMOJIS) - 1)

MM_startNewGame(draws) == [MM_INITIAL_STATE EXCEPT !.board = MM_shuffleCards(draws)]

\* flipCard raises a TypeError where it reads state.board[index].isFlipped
\* and board[index] is undefined
MM_flipCard_raises(state, index) ==
    /\ state.status = "in_progress"
    /\ ~(Len(state.flippedIndices) >= 2)
    /\ index \notin DOMAIN state.board

\* flipCard as it would be if a tap on a face-up card turned it back
MM_flipCard_turnsBack(state, index) ==
    IF state.status # "in_progress" THEN state
    ELSE IF Len(state.flippedIndices) >= 2 THEN state
    ELSE IF state.board[index].isMatched THEN state
    ELSE IF state.board[index].isFlipped
    THEN [state EXCEPT !.board[index].isFlipped = FALSE,
                       !.flippedIndices =
                           SelectSeq(state.flippedIndices, LAMBDA i : i # index)]
    ELSE [state EXCEPT !.board[index].isFlipped = TRUE,
                       !.flippedIndices = Append(state.flippedIndices, index)]

\* flipCard as it would be without the test of flippedIndices.length
MM_flipCard_noWait(state, index) ==
    IF state.status # "in_progress" THEN state
    ELSE IF state.board[index].isFlipped \/ state.board[index].isMatched THEN state
    ELSE [state EXCEPT !.board[index].isFlipped = TRUE,
                       !.flippedIndices = Append(state.flippedIndices, index)]

MM_flipCard(state, index) ==
    IF state.status # "in_progress" THEN state
    ELSE IF Len(state.flippedIndices) >= 2 THEN state
    ELSE IF state.board[index].isFlipped \/ state.board[index].isMatched THEN state
    ELSE [state EXCEPT !.board[index].isFlipped = TRUE,
                       !.flippedIndices = Append(state.flippedIndices, index)]

\* checkMatch as it would be if the second card of a failed pair stayed face-up
MM_checkMatch_secondStaysUp(state) ==
    IF Len(state.flippedIndices) # 2 THEN state
    ELSE LET idx1 == state.flippedIndices[1]
             idx2 == state.flippedIndices[2]
             card1 == state.board[idx1]
             card2 == state.board[idx2]
             isMatch == card1.value = card2.value
             newBoard ==
                 IF isMatch
                 THEN [state.board EXCEPT ![idx1] = [card1 EXCEPT !.isMatched = TRUE],
                                          ![idx2] = [card2 EXCEPT !.isMatched = TRUE]]
                 ELSE [state.board EXCEPT ![idx1] = [card1 EXCEPT !.isFlipped = FALSE],
                                          ![idx2] = [card2 EXCEPT !.isFlipped = TRUE]]
             allMatched == \A i \in DOMAIN newBoard : newBoard[i].isMatched
         IN  [state EXCEPT !.board = newBoard,
                           !.flippedIndices = <<>>,
                           !.movesCount = state.movesCount + 1,
                           !.status = IF allMatched THEN "win" ELSE "in_progress",
                           !.winner = IF allMatched THEN "P1" ELSE Null]

\* checkMatch as it would be if only matching pairs were counted
MM_checkMatch_countsMatches(state) ==
    IF Len(state.flippedIndices) # 2 THEN state
    ELSE LET idx1 == state.flippedIndices[1]
             idx2 == state.flippedIndices[2]
             card1 == state.board[idx1]
             card2 == state.board[idx2]
             isMatch == card1.value = card2.value
             newBoard ==
                 IF isMatch
                 THEN [state.board EXCEPT ![idx1] = [card1 EXCEPT !.isMatched = TRUE],
                                          ![idx2] = [card2 EXCEPT !.isMatched = TRUE]]
                 ELSE [state.board EXCEPT ![idx1] = [card1 EXCEPT !.isFlipped = FALSE],
                                          ![idx2] = [card2 EXCEPT !.isFlipped = FALSE]]
             allMatched == \A i \in DOMAIN newBoard : newBoard[i].isMatched
         IN  [state EXCEPT !.board = newBoard,
                           !.flippedIndices = <<>>,
                           !.movesCount = IF isMatch THEN state.movesCount + 1 ELSE state.movesCount,
                           !.status = IF allMatched THEN "win" ELSE "in_progress",
                           !.winner = IF allMatched THEN "P1" ELSE Null]

\* checkMatch as it would be if any matching pair ended the game
MM_checkMatch_winsOnMatch(state) ==
    IF Len(state.flippedIndices) # 2 THEN state
    ELSE LET idx1 == state.flippedIndices[1]
             idx2 == state.flippedIndices[2]
             card1 == state.board[idx1]
             card2 == state.board[idx2]
             isMatch == card1.value = card2.value
             newBoard ==
                 IF isMatch
                 THEN [state.board EXCEPT ![idx1] = [card1 EXCEPT !.isMatched = TRUE],
                                          ![idx2] = [card2 EXCEPT !.isMatched = TRUE]]
                 ELSE [state.board EXCEPT ![idx1] = [card1 EXCEPT !.isFlipped = FALSE],
                                          ![idx2] = [card2 EXCEPT !.isFlipped = FALSE]]
             allMatched == isMatch
         IN  [state EXCEPT !.board = newBoard,
                           !.flippedIndices = <<>>,
                           !.movesCount = state.movesCount + 1,
                           !.status = IF allMatched THEN "win" ELSE "in_progress",
                           !.winner = IF allMatched THEN "P1" ELSE Null]

MM_checkMatch(state) ==
    IF Len(state.flippedIndices) # 2 THEN state
    ELSE LET idx1 == state.flippedIndices[1]
             idx2 == state.flippedIndices[2]
             card1 == state.board[idx1]
             card2 == state.board[idx2]
             newBoard ==
                 IF card1.value = card2.value
                 THEN [state.board EXCEPT ![idx1] = [card1 EXCEPT !.isMatched = TRUE],
                                          ![idx2] = [card2 EXCEPT !.isMatched = TRUE]]
                 ELSE [state.board EXCEPT ![idx1] = [card1 EXCEPT !.isFlipped = FALSE],
                                          ![idx2] = [card2 EXCEPT !.isFlipped = FALSE]]
             allMatched == \A i \in DOMAIN newBoard : newBoard[i].isMatched
         IN  [state EXCEPT !.board = newBoard,
                           !.flippedIndices = <<>>,
                           !.movesCount = state.movesCount + 1,
                           !.status = IF allMatched THEN "win" ELSE "in_progress",
                           !.winner = IF allMatched THEN "P1" ELSE Null]

(***************************************************************************)
(* WordleClone (turkishwordle).  A word is the sequence of its characters. *)
(* Characters outside ASCII are written "I." (capital dotted I), "i-"      *)
(* (small dotless i), "C," "c," (c cedilla), "S," "s," (s cedilla),        *)
(* "O:" "o:" (o diaeresis), "U:" "u:" (u diaeresis), "G^" "g^" (g breve).  *)
(* words.ts is not part of the sources at hand: the two word lists are     *)
(* taken from the specification's examples.                                *)
(***************************************************************************)
DEFAULT_WORD_LENGTH == 5
DEFAULT_MAX_ATTEMPTS == 6

W_ELMAS == <<"E", "L", "M", "A", "S">>
W_KALEM == <<"K", "A", "L", "E", "M">>
W_KITAP == <<"K", "I.", "T", "A", "P">>
W_ALMA == <<"A", "L", "M", "A">>
W_MAMA == <<"M", "A", "M", "A">>

TARGET_WORDS_TR == <<W_ELMAS, W_KITAP, W_ALMA>>
ALLOWED_WORDS_TR == <<W_ELMAS, W_KALEM, W_KITAP, W_ALMA, W_MAMA>>

TR_LOWER == <<"c,", "g^", "i-", "i", "o:", "s,", "u:">>
TR_UPPER == <<"C,", "G^", "I", "I.", "O:", "S,", "U:">>

\* toLocaleUpperCase('tr-TR') on one character: i -> dotted capital I,
\* dotless i -> I
trUpperChar(ch) ==
    IF \E k \in 1..Len(TR_LOWER) : TR_LOWER[k] = ch
    THEN TR_UPPER[CHOOSE k \in 1..Len(TR_LOWER) : TR_LOWER[k] = ch]
    ELSE toUpperCase(ch)

toLocaleUpperCase(word) == [k \in 1..Len(word) |-> trUpperChar(word[k])]

\* a word of words.ts written in small letters: dotted capital I -> i,
\* I -> dotless i
TW_smallLetters(word) ==
    [k \in 1..Len(word) |->
        IF \E j \in 1..Len(TR_UPPER) : TR_UPPER[j] = word[k]
        THEN TR_LOWER[CHOOSE j \in 1..Len(TR_UPPER) : TR_UPPER[j] = word[k]]
        ELSE IF \E j \in 1..Len(UPPER_CASE) : UPPER_CASE[j] = word[k]
        THEN LOWER_CASE[CHOOSE j \in 1..Len(UPPER_CASE) : UPPER_CASE[j] = word[k]]
        ELSE word[k]]

\* the character class of updateCurrentGuess's regular expression
TW_LETTERS ==
    {LOWER_CASE[k] : k \in 1..Len(LOWER_CASE)}
        \cup {UPPER_CASE[k] : k \in 1..Len(UPPER_CASE)}
        \cup {"C,", "c,", "G^", "g^", "I", "i-", "I.", "i", "O:", "o:",
              "S,", "s,", "U:", "u:"}

\* text.replace(/[^...]/g, '')
RECURSIVE TW_clean(_)
TW_clean(text) ==
    IF text = <<>> THEN <<>>
    ELSE IF Head(text) \in TW_LETTERS THEN <<Head(text)>> \o TW_clean(Tail(text))
    ELSE TW_clean(Tail(text))

\* TARGET_WORDS_TR.filter(w => w.length === wordLength)
TW_possibleTargets(wordLength) ==
    SelectSeq(TARGET_WORDS_TR, LAMBDA w : Len(w) = wordLength)

\* config?.wordLength || DEFAULT_WORD_LENGTH: 0 stands for an absent value;
\* `pick` is Math.floor(Math.random() * possibleTargets.length)
initTurkishWordleGame(cfgWordLength, cfgMaxAttempts, pick) ==
    LET wordLength == IF cfgWordLength = 0 THEN DEFAULT_WORD_LENGTH ELSE cfgWordLength
        maxAttempts == IF cfgMaxAttempts = 0 THEN DEFAULT_MAX_ATTEMPTS ELSE cfgMaxAttempts
    IN  [board |-> Null, currentPlayer |-> "P1", mode |-> "singleplayer",
         winner |-> Null,
         targetWord |-> TW_possibleTargets(wordLength)[pick + 1],
         guesses |-> <<>>, maxAttempts |-> maxAttempts, currentAttemptIndex |-> 0,
         wordLength |-> wordLength, status |-> "in_progress",
         currentGuess |-> <<>>, errorMessage |-> Null]

isValidTurkishWord(word, wordLength) ==
    IF Len(word) # wordLength THEN FALSE
    ELSE includes(ALLOWED_WORDS_TR, word)

\* availableTargetLetters.indexOf(char), 1-based; 0 when absent
TW_indexOf(available, char) ==
    IF includes(available, char)
    THEN CHOOSE k \in 1..Len(available) :
            /\ available[k] = char
            /\ \A j \in 1..(k - 1) : available[j] # char
    ELSE 0

\* First pass: positions of the guess that equal the target are consumed
TW_firstPass(targetLetters, guessLetters) ==
    [k \in 1..Len(targetLetters) |->
        IF k <= Len(guessLetters) /\ guessLetters[k] = targetLetters[k]
        THEN Null ELSE targetLetters[k]]

\* Second pass from position i on; `row` holds the feedback given so far
RECURSIVE TW_secondPass(_, _, _, _, _)
TW_secondPass(targetLetters, guessLetters, available, row, i) ==
    IF i > Len(guessLetters) THEN row
    ELSE IF i <= Len(targetLetters) /\ guessLetters[i] = targetLetters[i]
    THEN TW_secondPass(targetLetters, guessLetters, available,
                       Append(row, [char |-> guessLetters[i], feedback |-> "correct"]),
                       i + 1)
    ELSE LET targetIndex == TW_indexOf(available, guessLetters[i])
         IN  IF targetIndex # 0
             THEN TW_secondPass(targetLetters, guessLetters,
                                [available EXCEPT ![targetIndex] = Null],
                                Append(row, [char |-> guessLetters[i],
                                             feedback |-> "present"]),
                                i + 1)
             ELSE TW_secondPass(targetLetters, guessLetters, available,
                                Append(row, [char |-> guessLetters[i],
                                             feedback |-> "absent"]),
                                i + 1)

\* the scoring as it would be if the first pass consumed no target letter
evaluateTurkishWordleGuess_noConsume(targetWord, guess) ==
    LET targetLetters == toLocaleUpperCase(targetWord)
        guessLetters == toLocaleUpperCase(guess)
    IN  TW_secondPass(targetLetters, guessLetters, targetLetters, <<>>, 1)

evaluateTurkishWordleGuess(targetWord, guess) ==
    LET targetLetters == toLocaleUpperCase(targetWord)
        guessLetters == toLocaleUpperCase(guess)
    IN  TW_secondPass(targetLetters, guessLetters,
                      TW_firstPass(targetLetters, guessLetters), <<>>, 1)

\* submitGuess as it would be without the dictionary test
submitGuess_noDictionary(state) ==
    IF state.status # "in_progress" THEN state
    ELSE LET guess == toLocaleUpperCase(state.currentGuess)
         IN  IF Len(guess) # state.wordLength
             THEN [state EXCEPT !.errorMessage = "Kelime cok kisa"]
             ELSE IF FALSE
             THEN [state EXCEPT !.errorMessage = "Gecersiz kelime"]
             ELSE LET row == evaluateTurkishWordleGuess(state.targetWord, guess)
                      newGuesses == Append(state.guesses, row)
                      isWin == guess = state.targetWord
                      isLose == ~isWin /\ Len(newGuesses) >= state.maxAttempts
                  IN  [state EXCEPT
                         !.guesses = newGuesses,
                         !.currentAttemptIndex = state.currentAttemptIndex + 1,
                         !.status = IF isWin THEN "win"
                                    ELSE IF isLose THEN "lose" ELSE "in_progress",
                         !.currentGuess = <<>>,
                         !.errorMessage = Null,
                         !.winner = IF isWin THEN "P1" ELSE Null]

\* submitGuess as it would be if the attempt limit were tested before the win
submitGuess_lastAttemptLoses(state) ==
    IF state.status # "in_progress" THEN state
    ELSE LET guess == toLocaleUpperCase(state.currentGuess)
         IN  IF Len(guess) # state.wordLength
             THEN [state EXCEPT !.errorMessage = "Kelime cok kisa"]
             ELSE IF ~isValidTurkishWord(guess, state.wordLength)
             THEN [state EXCEPT !.errorMessage = "Gecersiz kelime"]
             ELSE LET row == evaluateTurkishWordleGuess(state.targetWord, guess)
                      newGuesses == Append(state.guesses, row)
                      isWin == guess = state.targetWord
                      isLose == Len(newGuesses) >= state.maxAttempts
                  IN  [state EXCEPT
                         !.guesses = newGuesses,
                         !.currentAttemptIndex = state.currentAttemptIndex + 1,
                         !.status = IF isLose THEN "lose"
                                    ELSE IF isWin THEN "win" ELSE "in_progress",
                         !.currentGuess = <<>>,
                         !.errorMessage = Null,
                         !.winner = IF isWin THEN "P1" ELSE Null]

submitGuess(state) ==
    IF state.status # "in_progress" THEN state
    ELSE LET guess == toLocaleUpperCase(state.currentGuess)
         IN  IF Len(guess) # state.wordLength
             THEN [state EXCEPT !.errorMessage = "Kelime cok kisa"]
             ELSE IF ~isValidTurkishWord(guess, state.wordLength)
             THEN [state EXCEPT !.errorMessage = "Gecersiz kelime"]
             ELSE LET row == evaluateTurkishWordleGuess(state.targetWord, guess)
                      newGuesses == Append(state.guesses, row)
                      isWin == guess = state.targetWord
                      isLose == ~isWin /\ Len(newGuesses) >= state.maxAttempts
                  IN  [state EXCEPT
                         !.guesses = newGuesses,
                         !.currentAttemptIndex = state.currentAttemptIndex + 1,
                         !.status = IF isWin THEN "win"
                                    ELSE IF isLose THEN "lose" ELSE "in_progress",
                         !.currentGuess = <<>>,
                         !.errorMessage = Null,
                         !.winner = IF isWin THEN "P1" ELSE Null]

updateCurrentGuess(state, text) ==
    IF state.status # "in_progress" THEN state
    ELSE LET cleaned == toLocaleUpperCase(TW_clean(text))
         IN  IF Len(cleaned) > state.wordLength THEN state
             ELSE [state EXCEPT !.currentGuess = cleaned, !.errorMessage = Null]

(***************************************************************************)
(* Inputs.  TicTacToe is explored with every index, one past each end      *)
(* included.  ConnectFour is explored with every column for the first      *)
(* MaxFreeMoves pieces; afterwards play follows one of two column orders,  *)
(* each of which fills all 42 cells from the empty board without a run of  *)
(* four: C4_LINE, which alternates the owners within a column, while the   *)
(* bottom cell of column 5 is not P2's, and C4_LINE_STACK, which stacks    *)
(* three pieces of one owner, once it is.  Full boards, full columns and   *)
(* wins along all four directions are reached for both players.            *)
(***************************************************************************)
MaxFreeMoves == 2

TTT_Inputs == -1..TTT_CELLS

C4_LINE == <<0, 2, 1, 3, 4, 6, 5>>

C4_LINE_STACK ==
    <<0, 1, 0, 1, 0, 0, 2, 0, 2, 0, 2, 1, 1, 2, 1, 2, 1, 2, 4, 3, 4,
      3, 4, 3, 3, 4, 3, 4, 3, 4, 6, 5, 6, 5, 6, 5, 5, 6, 5, 6, 5, 6>>

C4_pieces(board) ==
    Cardinality({rc \in (0..(ROWS - 1)) \X (0..(COLS - 1)) : board[rc[1]][rc[2]] # Null})

C4_Inputs(state) ==
    IF C4_pieces(state.board) < MaxFreeMoves THEN -1..COLS
    ELSE IF state.board[ROWS - 1][5] = "P2"
         THEN {C4_LINE_STACK[C4_pieces(state.board) + 1]}
         ELSE {C4_LINE[(C4_pieces(state.board) % COLS) + 1]}

(***************************************************************************)
(* Battleship inputs.  A ship is placed with its origin in the row of its  *)
(* own index, column 0 (either orientation), or at the far corner, where   *)
(* no ship fits.  A shot goes to the attacker's first unfired cell in      *)
(* row-major order or again to cell (0, 0); the first MaxFreeShots shots   *)
(* of a game go to any cell of the main diagonal.                          *)
(***************************************************************************)
MaxFreeShots == 0

BS_Cells == (0..(GRID_SIZE - 1)) \X (0..(GRID_SIZE - 1))

BS_ShipIds == {INITIAL_SHIPS[k].id : k \in 1..Len(INITIAL_SHIPS)}

BS_PlaceInputs(state) ==
    LET k == BS_findIndex(INITIAL_SHIPS, state.setup.selectedShipId)
    IN  {<<GRID_SIZE - 1, GRID_SIZE - 1>>}
            \cup (IF k = -1 THEN {} ELSE {<<k - 1, 0>>})

BS_fired(shots) == {rc \in BS_Cells : shots[rc[1]][rc[2]] # "empty"}

BS_ShotInputs(state) ==
    LET shooter == IF state.currentPlayer = "P1" THEN state.p1 ELSE state.p2
        unfired == BS_Cells \ BS_fired(shooter.shots)
        index(rc) == rc[1] * GRID_SIZE + rc[2]
        first == {rc \in unfired : \A o \in unfired : index(rc) <= index(o)}
    IN  IF Cardinality(BS_fired(state.p1.shots)) + Cardinality(BS_fired(state.p2.shots))
              < MaxFreeShots
        THEN {rc \in BS_Cells : rc[1] = rc[2]}
        ELSE first \cup {<<0, 0>>}

(***************************************************************************)
(* Inputs of the other games.                                              *)
(*   NumberDuel: three targets (both ends of the range and one inside),    *)
(*     guesses at, next to and outside them, at most MaxGuesses guesses.   *)
(*   Hangman: three target words (one with a repeated letter); the letters *)
(*     of the word in either case, the last letter guessed, and the first  *)
(*     letter not yet guessed of those that occur in no word.              *)
(*   GeoQuiz: the options shown, and a name in the wrong case.             *)
(*   MemoryMatch: two shuffles; the first card of a pair is one of the     *)
(*     first MaxFirstFlips cards still face-down, the second is any card;  *)
(*     at most MaxMoves pairs are resolved.                                *)
(*   Wordle: the default configuration and a 4-letter one; typed texts in  *)
(*     both cases, with a foreign character, too short, too long, unknown. *)
(***************************************************************************)
MaxGuesses == 3
MaxFirstFlips == 2
MaxMoves == 9

RPS_Inputs == {RPS_MOVES[k] : k \in 1..Len(RPS_MOVES)}

GameModes == {"singleplayer", "multiplayer"}

NG_TARGETS == {1, 37, 100}
NG_Inputs == {0, 1, 36, 37, 38, 100, 101}

WG_TARGETS == {TURKISH_WORDS[1], TURKISH_WORDS[7], TURKISH_WORDS[9]}
WG_ABSENT == <<"C", "H", "J", "Q", "V", "W", "X">>

WG_Inputs(state) ==
    LET word == {state.targetWord[k] : k \in 1..Len(state.targetWord)}
        lower == {LOWER_CASE[k] : k \in {j \in 1..Len(UPPER_CASE) : UPPER_CASE[j] \in word}}
        last == IF state.guessedLetters = <<>> THEN {}
                ELSE {state.guessedLetters[Len(state.guessedLetters)]}
        open == {k \in 1..Len(WG_ABSENT) : ~includes(state.guessedLetters, WG_ABSENT[k])}
        absent == {WG_ABSENT[k] : k \in {j \in open : \A o \in open : j <= o}}
    IN  word \cup lower \cup last \cup absent

\* Battleship played to the end from the far corner: each shot goes to the
\* last cell in row-major order that the player to move has not fired upon,
\* so that the first cell of the carrier is the last one hit
BS_LastUnfired(state) ==
    LET shooter == IF state.currentPlayer = "P1" THEN state.p1 ELSE state.p2
        unfired == BS_Cells \ BS_fired(shooter.shots)
        index(rc) == rc[1] * GRID_SIZE + rc[2]
    IN  {rc \in unfired : \A o \in unfired : index(rc) >= index(o)}

GEO_Locations == {LOCATIONS[k] : k \in 1..Len(LOCATIONS)}

GEO_Inputs(state) ==
    {state.currentLocation.options[k] : k \in 1..Len(state.currentLocation.options)}
        \cup {"paris"}

MM_Indices == 0..(2 * Len(EMOJIS) - 1)

\* no swap at all, and every card swapped with the first
MM_DRAWS == {[i \in 1..(2 * Len(EMOJIS) - 1) |-> i],
             [i \in 1..(2 * Len(EMOJIS) - 1) |-> 0]}

MM_FlipInputs(state) ==
    IF Len(state.flippedIndices) = 0
    THEN LET down == {i \in DOMAIN state.board :
                         ~state.board[i].isFlipped /\ ~state.board[i].isMatched}
         IN  {i \in down : Cardinality({j \in down : j < i}) < MaxFirstFlips}
                 \cup (MM_Indices \ down)
    ELSE MM_Indices

TW_CONFIGS == {<<0, 0>>, <<4, 2>>}

\* the scoring function by itself is explored with every target and guess
\* of equal length up to MaxWordLen over three letters, which covers the
\* words ALMA and MAMA
MaxWordLen == 4

TW_EvalLetters == {"A", "L", "M"}
TW_EvalWords(n) == [1..n -> TW_EvalLetters]

TW_TEXTS ==
    {<<>>, <<"e", "l">>, <<"e", "l", "m", "a", "s">>, <<"E", "L", "M", "A", "S">>,
     <<"k", "a", "1", "l", "e", "m">>, <<"k", "i", "t", "a", "p">>,
     <<"K", "I", "T", "A", "P">>, <<"e", "l", "m", "a", "s", "l", "a", "r">>,
     <<"a", "l", "m", "a">>, <<"m", "a", "m", "a">>, <<"z", "z", "z", "z", "z">>}

(***************************************************************************)
(* The state machine                                                       *)
(***************************************************************************)
Games == {"tictactoe", "fourinarow", "battleship", "rockpaperscissors",
          "numberguess", "wordguess", "tinygeoguess", "memorymatch",
          "turkishwordle"}

TW_DEFAULT_STATE == initTurkishWordleGame(0, 0, 0)

\* the screen shows game g; the variables of the other games are not in use
InitOthers(g) ==
    /\ game = g
    /\ (g # "tictactoe") => ttt = TTT_INITIAL_STATE
    /\ (g # "fourinarow") => c4 = C4_INITIAL_STATE
    /\ (g # "battleship") => bs = BS_INITIAL_STATE
    /\ (g # "rockpaperscissors") => rps = RPS_INITIAL_STATE
    /\ (g # "numberguess") => ng = NG_INITIAL_STATE
    /\ (g # "wordguess") => wg = WG_INITIAL_STATE
    /\ (g # "tinygeoguess") => geo = GEO_INITIAL_STATE
    /\ (g # "memorymatch") => mm = MM_INITIAL_STATE
    /\ (g # "turkishwordle") => tw = TW_DEFAULT_STATE

InitTTT == InitOthers("tictactoe") /\ ttt = TTT_INITIAL_STATE
InitC4 == InitOthers("fourinarow") /\ c4 = C4_INITIAL_STATE
InitBS == InitOthers("battleship") /\ bs = BS_startNewGame
InitRPS == InitOthers("rockpaperscissors") /\ \E mode \in GameModes : rps = RPS_resetGame(mode)
InitNG ==
    /\ InitOthers("numberguess")
    /\ \E mode \in GameModes, target \in NG_TARGETS : ng = NG_startNewGame(mode, target)
InitWG == InitOthers("wordguess") /\ \E word \in WG_TARGETS : wg = WG_startNewGame(word)
InitGEO == InitOthers("tinygeoguess") /\ \E first \in GEO_Locations : geo = GEO_startNewGame(first)
InitMM == InitOthers("memorymatch") /\ \E draws \in MM_DRAWS : mm = MM_startNewGame(draws)
InitTW ==
    /\ InitOthers("turkishwordle")
    /\ \E cfg \in TW_CONFIGS :
         \E pick \in 0..(Len(TW_possibleTargets(
                               IF cfg[1] = 0 THEN DEFAULT_WORD_LENGTH ELSE cfg[1])) - 1) :
            tw = initTurkishWordleGame(cfg[1], cfg[2], pick)

TTTMove ==
    /\ game = "tictactoe"
    /\ \E index \in TTT_Inputs : ttt' = TTT_makeMove(ttt, index)
    /\ UNCHANGED <<game, c4, bs, rps, ng, wg, geo, mm, tw>>

C4Move ==
    /\ game = "fourinarow"
    /\ \E colIndex \in C4_Inputs(c4) : c4' = C4_makeMove(c4, colIndex)
    /\ UNCHANGED <<game, ttt, bs, rps, ng, wg, geo, mm, tw>>

BSSelectShip ==
    /\ game = "battleship"
    /\ \E shipId \in BS_ShipIds : bs' = BS_selectShip(bs, shipId)
    /\ UNCHANGED <<game, ttt, c4, rps, ng, wg, geo, mm, tw>>

BSToggleOrientation ==
    /\ game = "battleship"
    /\ bs' = BS_toggleOrientation(bs)
    /\ UNCHANGED <<game, ttt, c4, rps, ng, wg, geo, mm, tw>>

BSPlaceShip ==
    /\ game = "battleship"
    /\ \E rc \in BS_PlaceInputs(bs) : bs' = BS_placeShip(bs, rc[1], rc[2])
    /\ UNCHANGED <<game, ttt, c4, rps, ng, wg, geo, mm, tw>>

BSFinishSetup ==
    /\ game = "battleship"
    /\ bs' = BS_finishSetup(bs)
    /\ UNCHANGED <<game, ttt, c4, rps, ng, wg, geo, mm, tw>>

BSFireShot ==
    /\ game = "battleship"
    /\ \E rc \in BS_ShotInputs(bs) : bs' = BS_fireShot(bs, rc[1], rc[2])
    /\ UNCHANGED <<game, ttt, c4, rps, ng, wg, geo, mm, tw>>

\* a shot at the last cell, in row-major order, that the player to move has
\* not fired upon
BSFireLastUnfired ==
    /\ game = "battleship"
    /\ bs.phase = "in_progress"
    /\ \E rc \in BS_LastUnfired(bs) : bs' = BS_fireShot(bs, rc[1], rc[2])
    /\ UNCHANGED <<game, ttt, c4, rps, ng, wg, geo, mm, tw>>

RPSMove ==
    /\ game = "rockpaperscissors"
    /\ \E move \in RPS_Inputs, randomMove \in RPS_Inputs :
          rps' = RPS_makeMove(rps, move, randomMove)
    /\ UNCHANGED <<game, ttt, c4, bs, ng, wg, geo, mm, tw>>

NGGuess ==
    /\ game = "numberguess"
    /\ ng.attempts < MaxGuesses
    /\ \E guess \in NG_Inputs : ng' = NG_makeGuess(ng, guess)
    /\ UNCHANGED <<game, ttt, c4, bs, rps, wg, geo, mm, tw>>

WGGuess ==
    /\ game = "wordguess"
    /\ \E letter \in WG_Inputs(wg) : wg' = WG_makeGuess(wg, letter)
    /\ UNCHANGED <<game, ttt, c4, bs, rps, ng, geo, mm, tw>>

GEOGuess ==
    /\ game = "tinygeoguess"
    /\ \E guess \in GEO_Inputs(geo), nextLocation \in GEO_Locations :
          geo' = GEO_makeGuess(geo, guess, nextLocation)
    /\ UNCHANGED <<game, ttt, c4, bs, rps, ng, wg, mm, tw>>

MMFlipCard ==
    /\ game = "memorymatch"
    /\ \E index \in MM_FlipInputs(mm) : mm' = MM_flipCard(mm, index)
    /\ UNCHANGED <<game, ttt, c4, bs, rps, ng, wg, geo, tw>>

MMCheckMatch ==
    /\ game = "memorymatch"
    /\ mm.movesCount < MaxMoves
    /\ mm' = MM_checkMatch(mm)
    /\ UNCHANGED <<game, ttt, c4, bs, rps, ng, wg, geo, tw>>

TWUpdateCurrentGuess ==
    /\ game = "turkishwordle"
    /\ \E text \in TW_TEXTS : tw' = updateCurrentGuess(tw, text)
    /\ UNCHANGED <<game, ttt, c4, bs, rps, ng, wg, geo, mm>>

TWSubmitGuess ==
    /\ game = "turkishwordle"
    /\ tw' = submitGuess(tw)
    /\ UNCHANGED <<game, ttt, c4, bs, rps, ng, wg, geo, mm>>

\* the case in which words.ts stores its words is not known from the
\* sources at hand: a game may start with the target in capitals or in
\* small letters
InitTWCase ==
    /\ InitOthers("turkishwordle")
    /\ \E cfg \in TW_CONFIGS :
         \E pick \in 0..(Len(TW_possibleTargets(
                               IF cfg[1] = 0 THEN DEFAULT_WORD_LENGTH ELSE cfg[1])) - 1) :
            \E small \in BOOLEAN :
               tw = [initTurkishWordleGame(cfg[1], cfg[2], pick) EXCEPT
                        !.targetWord = IF small THEN TW_smallLetters(@) ELSE @]

\* the scoring function applied to a target and a guess of its length; the
\* guess stays in currentGuess beside its row
InitTWEval ==
    /\ InitOthers("turkishwordle")
    /\ \E n \in 1..MaxWordLen :
          \E target \in TW_EvalWords(n) :
             tw = [TW_DEFAULT_STATE EXCEPT !.targetWord = target, !.wordLength = n]

TWEvaluate ==
    /\ game = "turkishwordle"
    /\ tw.guesses = <<>>
    /\ \E guess \in TW_EvalWords(tw.wordLength) :
          tw' = [tw EXCEPT !.currentGuess = guess,
                           !.guesses = <<evaluateTurkishWordleGuess(tw.targetWord, guess)>>]
    /\ UNCHANGED <<game, ttt, c4, bs, rps, ng, wg, geo, mm>>

NextTTT == TTTMove
NextC4 == C4Move
NextBS == BSSelectShip \/ BSToggleOrientation \/ BSPlaceShip \/ BSFinishSetup \/ BSFireShot
NextRPS == RPSMove
NextNG == NGGuess
NextWG == WGGuess
NextGEO == GEOGuess
NextMM == MMFlipCard \/ MMCheckMatch
NextTW == TWUpdateCurrentGuess \/ TWSubmitGuess

Init ==
    \/ InitTTT \/ InitC4 \/ InitBS \/ InitRPS \/ InitNG
    \/ InitWG \/ InitGEO \/ InitMM \/ InitTW

Next ==
    \/ NextTTT \/ NextC4 \/ NextBS \/ NextRPS \/ NextNG
    \/ NextWG \/ NextGEO \/ NextMM \/ NextTW

Spec == Init /\ [][Next]_vars
SpecTTT == InitTTT /\ [][NextTTT]_vars
SpecC4 == InitC4 /\ [][NextC4]_vars
SpecBS == InitBS /\ [][NextBS]_vars
SpecNG == InitNG /\ [][NextNG]_vars
SpecWG == InitWG /\ [][NextWG]_vars
SpecGEO == InitGEO /\ [][NextGEO]_vars
SpecMM == InitMM /\ [][NextMM]_vars
SpecTW == InitTW /\ [][NextTW]_vars
NextBSLive ==
    BSSelectShip \/ BSToggleOrientation \/ BSPlaceShip \/ BSFinishSetup \/ BSFireLastUnfired
\* both players keep firing at cells they have not fired upon
SpecBSLive == InitBS /\ [][NextBSLive]_vars /\ WF_vars(BSFireLastUnfired)
SpecTWCase == InitTWCase /\ [][NextTW]_vars
SpecTWEval == InitTWEval /\ [][TWEvaluate]_vars
SpecGrid == (InitTTT \/ InitC4) /\ [][NextTTT \/ NextC4]_vars
SpecDuel == (InitRPS \/ InitNG) /\ [][NextRPS \/ NextNG]_vars

(***************************************************************************)
(* Properties.  A property of a transition function is stated for the      *)
(* function applied to the current state with every input; it is checked   *)
(* in every reachable state.                                               *)
(***************************************************************************)

\* the lines of the 3x3 board, by geometry: three rows, three columns, two diagonals
TTT_Lines ==
    {{3 * r, 3 * r + 1, 3 * r + 2} : r \in 0..2}
        \cup {{c, c + 3, c + 6} : c \in 0..2}
        \cup {{0, 4, 8}, {2, 4, 6}}

TTT_owns(board, p) == \E L \in TTT_Lines : \A i \in L : board[i] = p

TTT_full(board) == \A i \in 0..(TTT_CELLS - 1) : board[i] # Null

\* right, down, down-right, up-right
C4_Dirs == {<<0, 1>>, <<1, 0>>, <<1, 1>>, <<-1, 1>>}

\* the runs of four cells inside the board, each as its four cells
C4_Runs ==
    {[k \in 0..3 |-> <<r + k * d[1], c + k * d[2]>>] :
        <<r, c, d>> \in {x \in (0..(ROWS - 1)) \X (0..(COLS - 1)) \X C4_Dirs :
                            /\ x[1] + 3 * x[3][1] \in 0..(ROWS - 1)
                            /\ x[2] + 3 * x[3][2] \in 0..(COLS - 1)}}

C4_owns(board, p) == \E run \in C4_Runs : \A k \in 0..3 : board[run[k][1]][run[k][2]] = p

C4_columnFull(board, c) == \A r \in 0..(ROWS - 1) : board[r][c] # Null

C4_full(board) == \A c \in 0..(COLS - 1) : C4_columnFull(board, c)

TTT_count(board, p) == Cardinality({i \in 0..(TTT_CELLS - 1) : board[i] = p})

C4_count(board, p) ==
    Cardinality({rc \in (0..(ROWS - 1)) \X (0..(COLS - 1)) : board[rc[1]][rc[2]] = p})

BS_Terminal(state) == state.status # "in_progress" \/ state.phase = "finished"

\* C1: terminal absorption.  In every game, in every reachable state whose
\* status is not in_progress (for Battleship: whose phase is finished), every
\* transition function returns its input state, whatever the action.
C1_TerminalAbsorption ==
    /\ (game = "tictactoe" /\ ttt.status # "in_progress") =>
          \A index \in TTT_Inputs : TTT_makeMove(ttt, index) = ttt
    /\ (game = "fourinarow" /\ c4.status # "in_progress") =>
          \A colIndex \in -1..COLS : C4_makeMove(c4, colIndex) = c4
    /\ (game = "rockpaperscissors" /\ rps.status # "in_progress") =>
          \A move \in RPS_Inputs, randomMove \in RPS_Inputs :
              RPS_makeMove(rps, move, randomMove) = rps
    /\ (game = "battleship" /\ BS_Terminal(bs)) =>
          /\ \A rc \in BS_Cells : BS_placeShip(bs, rc[1], rc[2]) = bs
          /\ BS_finishSetup(bs) = bs
          /\ \A rc \in BS_Cells : BS_fireShot(bs, rc[1], rc[2]) = bs
          /\ \A shipId \in BS_ShipIds : BS_selectShip(bs, shipId) = bs
          /\ BS_toggleOrientation(bs) = bs
    /\ (game = "memorymatch" /\ mm.status # "in_progress") =>
          /\ \A index \in MM_Indices : MM_flipCard(mm, index) = mm
          /\ MM_checkMatch(mm) = mm
    /\ (game = "numberguess" /\ ng.status # "in_progress") =>
          \A guess \in NG_Inputs : NG_makeGuess(ng, guess) = ng
    /\ (game = "wordguess" /\ wg.status # "in_progress") =>
          \A letter \in WG_Inputs(wg) : WG_makeGuess(wg, letter) = wg
    /\ (game = "tinygeoguess" /\ geo.status # "in_progress") =>
          \A guess \in GEO_Inputs(geo), nextLocation \in GEO_Locations :
              GEO_makeGuess(geo, guess, nextLocation) = geo
    /\ (game = "turkishwordle" /\ tw.status # "in_progress") =>
          /\ submitGuess(tw) = tw
          /\ \A text \in TW_TEXTS : updateCurrentGuess(tw, text) = tw

\* C2: Battleship win.  An accepted fireShot that leaves every ship of the
\* defender with hits = size returns phase finished, winner = the attacker
\* and a status other than in_progress; while a defender ship is unsunk the
\* phase stays in_progress and the winner stays none.
C2_BattleshipWin ==
    (game = "battleship" /\ bs.phase = "in_progress") =>
        \A rc \in BS_Cells :
            LET attacker == bs.currentPlayer
                shooter == IF attacker = "P1" THEN bs.p1 ELSE bs.p2
                t == BS_fireShot(bs, rc[1], rc[2])
                defender == IF attacker = "P1" THEN t.p2 ELSE t.p1
            IN  shooter.shots[rc[1]][rc[2]] = "empty" =>
                    IF \A k \in 1..Len(defender.ships) :
                           defender.ships[k].hits = defender.ships[k].size
                    THEN /\ t.phase = "finished"
                         /\ t.winner = attacker
                         /\ t.status # "in_progress"
                    ELSE /\ t.phase = "in_progress"
                         /\ t.winner = Null

\* C3: in TicTacToe and ConnectFour, makeMove on a state that is not
\* in_progress, on an occupied cell or on a full column returns the input
\* state: board, status, winner and currentPlayer are as before.
C3_RejectedMoveUnchanged ==
    /\ game = "tictactoe" =>
          \A index \in 0..(TTT_CELLS - 1) :
              (ttt.status # "in_progress" \/ ttt.board[index] # Null) =>
                  TTT_makeMove(ttt, index) = ttt
    /\ game = "fourinarow" =>
          \A colIndex \in 0..(COLS - 1) :
              (c4.status # "in_progress" \/ C4_columnFull(c4.board, colIndex)) =>
                  C4_makeMove(c4, colIndex) = c4

\* a ConnectFour game in progress with a full column, where a drop is rejected
C3_Witness ==
    /\ game = "fourinarow"
    /\ c4.status = "in_progress"
    /\ \E colIndex \in 0..(COLS - 1) :
          C4_columnFull(c4.board, colIndex) /\ C4_makeMove(c4, colIndex) = c4

\* the state after the moves of `indices`, in order
RECURSIVE TTT_play(_, _)
TTT_play(state, indices) ==
    IF indices = <<>> THEN state
    ELSE TTT_play(TTT_makeMove(state, Head(indices)), Tail(indices))

\* C4: in TicTacToe and ConnectFour, when the mark placed by an accepted
\* makeMove completes a line of the mover, the result has status win, winner
\* the mover and currentPlayer still the mover; the moves 0,4,1,5,2 from the
\* initial TicTacToe state end with status win and winner P1.
C4_WinningMove ==
    /\ (game = "tictactoe" /\ ttt.status = "in_progress") =>
          \A index \in 0..(TTT_CELLS - 1) :
              \A t \in {TTT_makeMove(ttt, index)} :
                  (ttt.board[index] = Null /\ TTT_owns(t.board, ttt.currentPlayer)) =>
                      /\ t.status = "win"
                      /\ t.winner = ttt.currentPlayer
                      /\ t.currentPlayer = ttt.currentPlayer
    /\ (game = "fourinarow" /\ c4.status = "in_progress") =>
          \A colIndex \in 0..(COLS - 1) :
              \A t \in {C4_makeMove(c4, colIndex)} :
                  (~C4_columnFull(c4.board, colIndex)
                       /\ C4_owns(t.board, c4.currentPlayer)) =>
                      /\ t.status = "win"
                      /\ t.winner = c4.currentPlayer
                      /\ t.currentPlayer = c4.currentPlayer
    /\ LET e == TTT_play(TTT_INITIAL_STATE, <<0, 4, 1, 5, 2>>)
       IN  e.status = "win" /\ e.winner = "P1"

\* the end of the scenario 0,4,1,5,2: the top row is P1's
C4_Witness ==
    /\ game = "tictactoe"
    /\ ttt.status = "win" /\ ttt.winner = "P1" /\ ttt.currentPlayer = "P1"
    /\ ttt.board = [i \in 0..(TTT_CELLS - 1) |->
                       IF i \in {0, 1, 2} THEN "P1"
                       ELSE IF i \in {4, 5} THEN "P2" ELSE Null]

\* C5: an accepted makeMove yields status draw (winner none, currentPlayer
\* unchanged) exactly when the resulting board has no line of either player
\* and no free cell; a move that fills the last cell and completes a line is
\* a win.
C5_DrawExactly ==
    /\ (game = "tictactoe" /\ ttt.status = "in_progress") =>
          \A index \in 0..(TTT_CELLS - 1) :
              \A t \in {TTT_makeMove(ttt, index)} :
              \A line \in {TTT_owns(t.board, "P1") \/ TTT_owns(t.board, "P2")} :
                  ttt.board[index] = Null =>
                      /\ (t.status = "draw") <=> (~line /\ TTT_full(t.board))
                      /\ (t.status = "draw") =>
                             (t.winner = Null /\ t.currentPlayer = ttt.currentPlayer)
                      /\ (line /\ TTT_full(t.board)) => t.status = "win"
    /\ (game = "fourinarow" /\ c4.status = "in_progress") =>
          \A colIndex \in 0..(COLS - 1) :
              \A t \in {C4_makeMove(c4, colIndex)} :
              \A line \in {C4_owns(t.board, "P1") \/ C4_owns(t.board, "P2")} :
                  ~C4_columnFull(c4.board, colIndex) =>
                      /\ (t.status = "draw") <=> (~line /\ C4_full(t.board))
                      /\ (t.status = "draw") =>
                             (t.winner = Null /\ t.currentPlayer = c4.currentPlayer)
                      /\ (line /\ C4_full(t.board)) => t.status = "win"

\* a ConnectFour board filled to the last cell without a run of four
C5_Witness ==
    /\ game = "fourinarow"
    /\ c4.status = "draw" /\ c4.winner = Null
    /\ C4_full(c4.board)

\* C6: an accepted makeMove that produces neither a win nor a draw keeps
\* status in_progress and switches currentPlayer; in every reachable state
\* the number of P1 marks minus the number of P2 marks is 0 or 1, and in every
\* in_progress state P1 is to move iff the two numbers are equal.
C6_TurnAlternation ==
    /\ game = "tictactoe" =>
          /\ TTT_count(ttt.board, "P1") - TTT_count(ttt.board, "P2") \in {0, 1}
          /\ ttt.status = "in_progress" =>
                /\ (ttt.currentPlayer = "P1") <=>
                       (TTT_count(ttt.board, "P1") = TTT_count(ttt.board, "P2"))
                /\ \A index \in 0..(TTT_CELLS - 1) :
                      \A t \in {TTT_makeMove(ttt, index)} :
                          (ttt.board[index] = Null /\ t.status \notin {"win", "draw"}) =>
                              /\ t.status = "in_progress"
                              /\ t.currentPlayer = OtherPlayer(ttt.currentPlayer)
    /\ game = "fourinarow" =>
          /\ C4_count(c4.board, "P1") - C4_count(c4.board, "P2") \in {0, 1}
          /\ c4.status = "in_progress" =>
                /\ (c4.currentPlayer = "P1") <=>
                       (C4_count(c4.board, "P1") = C4_count(c4.board, "P2"))
                /\ \A colIndex \in 0..(COLS - 1) :
                      \A t \in {C4_makeMove(c4, colIndex)} :
                          (~C4_columnFull(c4.board, colIndex)
                               /\ t.status \notin {"win", "draw"}) =>
                              /\ t.status = "in_progress"
                              /\ t.currentPlayer = OtherPlayer(c4.currentPlayer)

\* ConnectFour in progress after an odd number of accepted moves: P2 to move
C6_Witness ==
    /\ game = "fourinarow"
    /\ c4.status = "in_progress" /\ c4.currentPlayer = "P2"
    /\ C4_count(c4.board, "P1") = 11 /\ C4_count(c4.board, "P2") = 10

\* C7: on every board reachable through makeMove at most one identity owns
\* a complete line: no board has both a P1 line and a P2 line.
C7_NoDualWin ==
    /\ game = "tictactoe" => ~(TTT_owns(ttt.board, "P1") /\ TTT_owns(ttt.board, "P2"))
    /\ game = "fourinarow" => ~(C4_owns(c4.board, "P1") /\ C4_owns(c4.board, "P2"))

\* a TicTacToe board with a P2 line, on which checkWinner answers P2
C7_Witness ==
    /\ game = "tictactoe"
    /\ TTT_owns(ttt.board, "P2") /\ TTT_checkWinner(ttt.board) = "P2"

\* C8: ConnectFour gravity.  An accepted makeMove(state, col) puts the
\* mover's piece in the lowest empty row of the column and changes no other
\* cell; no piece of a reachable board floats; a drop into a full column
\* returns the input state.
C8_Gravity ==
    game = "fourinarow" =>
        /\ \A r \in 0..(ROWS - 2), c \in 0..(COLS - 1) :
              c4.board[r][c] # Null => c4.board[r + 1][c] # Null
        /\ \A colIndex \in 0..(COLS - 1) :
              LET t == C4_makeMove(c4, colIndex)
                  empty == {r \in 0..(ROWS - 1) : c4.board[r][colIndex] = Null}
              IN  IF c4.status = "in_progress" /\ empty # {}
                  THEN LET low == CHOOSE r \in empty : \A o \in empty : o <= r
                       IN  t.board = [c4.board EXCEPT ![low][colIndex] = c4.currentPlayer]
                  ELSE t = c4

\* a piece resting on another one, in a game in which a column has filled up
C8_Witness ==
    /\ game = "fourinarow"
    /\ c4.status = "in_progress"
    /\ \E c \in 0..(COLS - 1) : C4_columnFull(c4.board, c)
    /\ \E c \in 0..(COLS - 1) : c4.board[ROWS - 2][c] # Null /\ c4.board[ROWS - 3][c] = Null

\* a transition from s to t whose result is terminal keeps currentPlayer
KeepsPlayerAtEnd(s, t) ==
    t.status # "in_progress" => t.currentPlayer = s.currentPlayer

\* the games other than Rock-Paper-Scissors and Battleship
C9_StatusGames ==
    /\ game = "tictactoe" =>
          \A index \in TTT_Inputs : KeepsPlayerAtEnd(ttt, TTT_makeMove(ttt, index))
    /\ game = "fourinarow" =>
          \A colIndex \in -1..COLS : KeepsPlayerAtEnd(c4, C4_makeMove(c4, colIndex))
    /\ game = "memorymatch" =>
          /\ \A index \in MM_Indices : KeepsPlayerAtEnd(mm, MM_flipCard(mm, index))
          /\ KeepsPlayerAtEnd(mm, MM_checkMatch(mm))
    /\ game = "numberguess" =>
          \A guess \in NG_Inputs : KeepsPlayerAtEnd(ng, NG_makeGuess(ng, guess))
    /\ game = "wordguess" =>
          \A letter \in WG_Inputs(wg) : KeepsPlayerAtEnd(wg, WG_makeGuess(wg, letter))
    /\ game = "tinygeoguess" =>
          \A guess \in GEO_Inputs(geo), nextLocation \in GEO_Locations :
              KeepsPlayerAtEnd(geo, GEO_makeGuess(geo, guess, nextLocation))
    /\ game = "turkishwordle" =>
          /\ KeepsPlayerAtEnd(tw, submitGuess(tw))
          /\ \A text \in TW_TEXTS : KeepsPlayerAtEnd(tw, updateCurrentGuess(tw, text))

\* Battleship's transitions other than fireShot
C9_BattleshipSetup ==
    game = "battleship" =>
        /\ \A rc \in BS_Cells :
              \A t \in {BS_placeShip(bs, rc[1], rc[2])} :
                  BS_Terminal(t) => t.currentPlayer = bs.currentPlayer
        /\ \A shipId \in BS_ShipIds :
              \A t \in {BS_selectShip(bs, shipId)} :
                  BS_Terminal(t) => t.currentPlayer = bs.currentPlayer
        /\ BS_Terminal(BS_toggleOrientation(bs)) =>
              BS_toggleOrientation(bs).currentPlayer = bs.currentPlayer
        /\ BS_Terminal(BS_finishSetup(bs)) =>
              BS_finishSetup(bs).currentPlayer = bs.currentPlayer

\* C9 as claimed: in every game other than Rock-Paper-Scissors a transition
\* whose result is terminal leaves currentPlayer as it was.
C9_Original ==
    /\ C9_StatusGames
    /\ C9_BattleshipSetup
    /\ game = "battleship" =>
          \A rc \in BS_Cells :
              LET t == BS_fireShot(bs, rc[1], rc[2])
              IN  BS_Terminal(t) => t.currentPlayer = bs.currentPlayer

\* C9 amended: in every game other than Rock-Paper-Scissors a transition
\* whose result is terminal leaves currentPlayer as it was, except
\* Battleship's winning fireShot (the shot that takes the phase from
\* in_progress to finished), which switches currentPlayer.
C9_Amended ==
    /\ C9_StatusGames
    /\ C9_BattleshipSetup
    /\ game = "battleship" =>
          \A rc \in BS_Cells :
              LET t == BS_fireShot(bs, rc[1], rc[2])
              IN  BS_Terminal(t) =>
                      IF bs.phase = "in_progress"
                      THEN t.currentPlayer = OtherPlayer(bs.currentPlayer)
                      ELSE t.currentPlayer = bs.currentPlayer

\* a finished Battleship game won by P1, whose last shot passed the turn to P2
C9_Witness ==
    /\ game = "battleship"
    /\ bs.phase = "finished" /\ bs.winner = "P1" /\ bs.currentPlayer = "P2"

\* a step of the phase from s to t, with the function that takes it
BS_PhaseStep(s, t) ==
    \/ t.phase = s.phase
    \/ s.phase = "setup_p1" /\ t.phase = "setup_p2" /\ t = BS_finishSetup(s)
    \/ s.phase = "setup_p2" /\ t.phase = "in_progress" /\ t = BS_finishSetup(s)
    \/ /\ s.phase = "in_progress" /\ t.phase = "finished"
       /\ \E rc \in BS_Cells : t = BS_fireShot(s, rc[1], rc[2])

\* C10: the Battleship phase only moves forward: it changes only from
\* setup_p1 to setup_p2 and from setup_p2 to in_progress, by finishSetup, and
\* from in_progress to finished, by fireShot.
C10_PhaseForward == [][BS_PhaseStep(bs, bs')]_vars

\* a finished game: the phase has gone through all four values
C10_Witness ==
    /\ game = "battleship"
    /\ bs.phase = "finished" /\ bs.winner = "P2"


(***************************************************************************)
(* Battleship: placement, shots and turns                                  *)
(***************************************************************************)

\* the cells of a ship's span by geometry: `size` cells from the origin,
\* to the right when horizontal, downwards when vertical; none when unplaced
BS_span(ship) ==
    IF ship.position = <<>> THEN {}
    ELSE LET pos == ship.position[1]
         IN  {IF pos.orientation = "horizontal"
              THEN <<pos.row, pos.col + i>>
              ELSE <<pos.row + i, pos.col>> : i \in 0..(ship.size - 1)}

BS_allPlaced(side) == \A k \in 1..Len(side.ships) : side.ships[k].placed

BS_cellsWith(grid, value) == {rc \in BS_Cells : grid[rc[1]][rc[2]] = value}

\* C11: finishSetup.  While a ship of the side being set up is unplaced,
\* finishSetup changes nothing but the message; with all ships placed it
\* takes setup_p1 to setup_p2 with currentPlayer P2 and setup_p2 to
\* in_progress with currentPlayer P1.  In phase setup_p2 all P1 ships are
\* placed; in phases in_progress and finished all ships of both sides are.
C11_FinishSetup ==
    game = "battleship" =>
        /\ bs.phase = "setup_p1" =>
              IF ~BS_allPlaced(bs.p1)
              THEN BS_finishSetup(bs) =
                       [bs EXCEPT !.lastActionMessage = "Place all ships first!"]
              ELSE /\ BS_finishSetup(bs).phase = "setup_p2"
                   /\ BS_finishSetup(bs).currentPlayer = "P2"
        /\ bs.phase = "setup_p2" =>
              /\ BS_allPlaced(bs.p1)
              /\ IF ~BS_allPlaced(bs.p2)
                 THEN BS_finishSetup(bs) =
                          [bs EXCEPT !.lastActionMessage = "Place all ships first!"]
                 ELSE /\ BS_finishSetup(bs).phase = "in_progress"
                      /\ BS_finishSetup(bs).currentPlayer = "P1"
        /\ bs.phase \in {"in_progress", "finished"} =>
              BS_allPlaced(bs.p1) /\ BS_allPlaced(bs.p2)

\* Player 2 has tried to finish the setup with a ship still to place
C11_Witness ==
    /\ game = "battleship"
    /\ bs.phase = "setup_p2"
    /\ ~BS_allPlaced(bs.p2)
    /\ \E k \in 1..Len(bs.p2.ships) : bs.p2.ships[k].placed
    /\ bs.lastActionMessage = "Place all ships first!"

\* the ships of a side are where its grid says: every placed ship's span is
\* inside the grid, no two spans meet, and the 'ship' cells are the spans
BS_Intact(side) ==
    /\ \A k \in 1..Len(side.ships) :
          side.ships[k].placed =>
              /\ Cardinality(BS_span(side.ships[k])) = side.ships[k].size
              /\ BS_span(side.ships[k]) \subseteq BS_Cells
    /\ \A j, k \in 1..Len(side.ships) :
          (j # k /\ side.ships[j].placed /\ side.ships[k].placed) =>
              BS_span(side.ships[j]) \cap BS_span(side.ships[k]) = {}
    /\ BS_cellsWith(side.grid, "ship") =
           UNION {BS_span(side.ships[k]) :
                     k \in {j \in 1..Len(side.ships) : side.ships[j].placed}}

\* C12: placement integrity.  During the setup, in every reachable state and
\* after placeShip at any origin of the grid, every placed ship's span lies
\* inside the grid, the spans of distinct ships are disjoint, and the cells
\* marked 'ship' in a side's grid are exactly the spans of its placed ships.
C12_PlacementIntegrity ==
    (game = "battleship" /\ bs.phase \in {"setup_p1", "setup_p2"}) =>
        /\ BS_Intact(bs.p1) /\ BS_Intact(bs.p2)
        /\ \A rc \in BS_Cells :
              LET t == BS_placeShip(bs, rc[1], rc[2])
              IN  BS_Intact(t.p1) /\ BS_Intact(t.p2)

\* a side with a vertical ship next to others, after a refused placement
C12_Witness ==
    /\ game = "battleship"
    /\ bs.phase = "setup_p1"
    /\ bs.lastActionMessage = "Invalid placement!"
    /\ Cardinality({k \in 1..Len(bs.p1.ships) : bs.p1.ships[k].placed}) >= 3
    /\ \E k \in 1..Len(bs.p1.ships) :
          /\ bs.p1.ships[k].placed
          /\ bs.p1.ships[k].position[1].orientation = "vertical"

\* C13: fireShot at a cell the attacker has already fired upon changes
\* nothing but lastActionMessage: grids, ships, shots, phase, winner and
\* currentPlayer are as before.
C13_RepeatedShotRejected ==
    (game = "battleship" /\ bs.phase = "in_progress") =>
        \A rc \in BS_Cells :
            LET shooter == IF bs.currentPlayer = "P1" THEN bs.p1 ELSE bs.p2
                t == BS_fireShot(bs, rc[1], rc[2])
            IN  shooter.shots[rc[1]][rc[2]] # "empty" =>
                    t = [bs EXCEPT !.lastActionMessage = t.lastActionMessage]

\* a shot has just been refused
C13_Witness ==
    /\ game = "battleship"
    /\ bs.phase = "in_progress"
    /\ bs.lastActionMessage = "Already shot there!"

\* the shots of `attacker` agree with the grid of `defender`
BS_ShotsAgree(attacker, defender) ==
    \A rc \in BS_Cells :
        /\ (attacker.shots[rc[1]][rc[2]] = "hit") <=> (defender.grid[rc[1]][rc[2]] = "hit")
        /\ (attacker.shots[rc[1]][rc[2]] = "miss") => (defender.grid[rc[1]][rc[2]] = "empty")

\* C14: an accepted shot is a hit iff the defender's grid held 'ship' at the
\* cell; a hit marks the cell 'hit' in the attacker's shots and in the
\* defender's grid, a miss marks it 'miss' in the shots and leaves the grid.
\* In every reachable state shots = hit iff grid = hit, and shots = miss
\* implies grid = empty, for both attacker/defender pairs.
C14_HitByDefenderGrid ==
    game = "battleship" =>
        /\ BS_ShotsAgree(bs.p1, bs.p2) /\ BS_ShotsAgree(bs.p2, bs.p1)
        /\ bs.phase = "in_progress" =>
              \A rc \in BS_Cells :
                  LET isP1 == bs.currentPlayer = "P1"
                      shooter == IF isP1 THEN bs.p1 ELSE bs.p2
                      defender == IF isP1 THEN bs.p2 ELSE bs.p1
                      t == BS_fireShot(bs, rc[1], rc[2])
                      tShooter == IF isP1 THEN t.p1 ELSE t.p2
                      tDefender == IF isP1 THEN t.p2 ELSE t.p1
                  IN  shooter.shots[rc[1]][rc[2]] = "empty" =>
                          IF defender.grid[rc[1]][rc[2]] = "ship"
                          THEN /\ tShooter.shots =
                                      [shooter.shots EXCEPT ![rc[1]][rc[2]] = "hit"]
                               /\ tDefender.grid =
                                      [defender.grid EXCEPT ![rc[1]][rc[2]] = "hit"]
                          ELSE /\ tShooter.shots =
                                      [shooter.shots EXCEPT ![rc[1]][rc[2]] = "miss"]
                               /\ tDefender.grid = defender.grid

\* both players have hit and P1 has missed
C14_Witness ==
    /\ game = "battleship"
    /\ bs.phase = "in_progress"
    /\ BS_cellsWith(bs.p1.shots, "hit") # {}
    /\ BS_cellsWith(bs.p1.shots, "miss") # {}
    /\ BS_cellsWith(bs.p2.shots, "hit") # {}
    /\ BS_cellsWith(bs.p1.grid, "hit") # {}

\* the hit-counts of a side are the 'hit' cells of its grid, ship by ship
BS_HitsCounted(side) ==
    \A k \in 1..Len(side.ships) :
        LET ship == side.ships[k]
            struck == BS_span(ship) \cap BS_cellsWith(side.grid, "hit")
        IN  /\ ship.hits = Cardinality(struck)
            /\ ship.hits >= 0 /\ ship.hits <= ship.size
            /\ ship.placed => ((ship.hits = ship.size) <=> (struck = BS_span(ship)))

\* C15: a hit adds one to the hit-count of exactly one defender ship, the
\* one whose span holds the cell; a miss changes no hit-count.  In every
\* reachable state each ship's hits is the number of 'hit' cells in its span,
\* between 0 and size, and equals size iff all its cells are hit.
C15_HitAccounting ==
    game = "battleship" =>
        /\ BS_HitsCounted(bs.p1) /\ BS_HitsCounted(bs.p2)
        /\ bs.phase = "in_progress" =>
              \A rc \in BS_Cells :
                  LET isP1 == bs.currentPlayer = "P1"
                      shooter == IF isP1 THEN bs.p1 ELSE bs.p2
                      defender == IF isP1 THEN bs.p2 ELSE bs.p1
                      t == BS_fireShot(bs, rc[1], rc[2])
                      tDefender == IF isP1 THEN t.p2 ELSE t.p1
                      owners == {k \in 1..Len(defender.ships) :
                                    rc \in BS_span(defender.ships[k])}
                  IN  shooter.shots[rc[1]][rc[2]] = "empty" =>
                          IF defender.grid[rc[1]][rc[2]] = "ship"
                          THEN /\ Cardinality(owners) = 1
                               /\ tDefender.ships =
                                      [k \in 1..Len(defender.ships) |->
                                          IF k \in owners
                                          THEN [defender.ships[k] EXCEPT
                                                   !.hits = defender.ships[k].hits + 1]
                                          ELSE defender.ships[k]]
                          ELSE tDefender.ships = defender.ships

\* P2 has a sunk ship, a damaged one and a vertical one that has been hit
C15_Witness ==
    /\ game = "battleship"
    /\ \E k \in 1..Len(bs.p2.ships) : bs.p2.ships[k].hits = bs.p2.ships[k].size
    /\ \E k \in 1..Len(bs.p2.ships) :
          bs.p2.ships[k].hits > 0 /\ bs.p2.ships[k].hits < bs.p2.ships[k].size
    /\ \E k \in 1..Len(bs.p2.ships) :
          /\ bs.p2.ships[k].position[1].orientation = "vertical"
          /\ bs.p2.ships[k].hits > 0

\* C16: every accepted fireShot, hit or miss, winning or not, switches
\* currentPlayer; after the winning shot currentPlayer is the loser; from
\* the start of play the accepted shots of P1 and P2 alternate, P1 first.
C16_ShotSwitchesTurn ==
    (game = "battleship" /\ bs.phase \in {"in_progress", "finished"}) =>
        LET n1 == Cardinality(BS_fired(bs.p1.shots))
            n2 == Cardinality(BS_fired(bs.p2.shots))
        IN  /\ n1 - n2 \in {0, 1}
            /\ (bs.currentPlayer = "P1") <=> (n1 = n2)
            /\ bs.phase = "finished" =>
                  /\ bs.winner \in Players
                  /\ bs.currentPlayer = OtherPlayer(bs.winner)
            /\ bs.phase = "in_progress" =>
                  \A rc \in BS_Cells :
                      LET shooter == IF bs.currentPlayer = "P1" THEN bs.p1 ELSE bs.p2
                      IN  shooter.shots[rc[1]][rc[2]] = "empty" =>
                              BS_fireShot(bs, rc[1], rc[2]).currentPlayer =
                                  OtherPlayer(bs.currentPlayer)

\* P2 has won with the last of as many shots as P1: the turn is P1's
C16_Witness ==
    /\ game = "battleship"
    /\ bs.phase = "finished" /\ bs.winner = "P2" /\ bs.currentPlayer = "P1"
    /\ Cardinality(BS_fired(bs.p1.shots)) = Cardinality(BS_fired(bs.p2.shots))


(***************************************************************************)
(* Rock-Paper-Scissors                                                     *)
(***************************************************************************)

\* the pairs <<a, b>> in which a beats b
RPS_Beats == {<<"rock", "scissors">>, <<"scissors", "paper">>, <<"paper", "rock">>}

\* C17: in a multiplayer game P1's makeMove records player1Move and passes
\* the turn to P2 with nothing revealed: status in_progress, no winner, no
\* roundWinner, player2Move unset.  The outcome is set by P2's makeMove
\* alone, in that one step.
C17_MultiplayerSequential ==
    (game = "rockpaperscissors" /\ rps.mode = "multiplayer") =>
        /\ rps.status # "in_progress" => rps.player2Move \in RPS_Inputs
        /\ rps.status = "in_progress" =>
              /\ rps.player2Move = Null /\ rps.winner = Null /\ rps.roundWinner = Null
              /\ \A move \in RPS_Inputs, randomMove \in RPS_Inputs :
                    LET t == RPS_makeMove(rps, move, randomMove)
                    IN  IF rps.currentPlayer = "P1"
                        THEN t = [rps EXCEPT !.player1Move = move,
                                             !.currentPlayer = "P2"]
                        ELSE /\ rps.player1Move \in RPS_Inputs
                             /\ t.player1Move = rps.player1Move
                             /\ t.player2Move = move
                             /\ t.status \in {"win", "draw"}
                             /\ t.roundWinner # Null

\* P1 has played rock and P2 is to move: nothing is decided
C17_Witness ==
    /\ game = "rockpaperscissors"
    /\ rps.mode = "multiplayer"
    /\ rps.currentPlayer = "P2" /\ rps.status = "in_progress"
    /\ rps.player1Move = "rock" /\ rps.player2Move = Null

\* the outcome in s is the one of its two stored moves
RPS_Resolved(s) ==
    /\ s.player1Move \in RPS_Inputs /\ s.player2Move \in RPS_Inputs
    /\ IF s.player1Move = s.player2Move
       THEN s.status = "draw" /\ s.winner = Null
       ELSE /\ s.status = "win"
            /\ s.winner = IF <<s.player1Move, s.player2Move>> \in RPS_Beats
                          THEN "P1" ELSE "P2"

\* C18: resolution follows the cyclic dominance for every pair of moves:
\* equal moves give a draw without winner, otherwise status win and the
\* winner is the player whose move beats the other's, computed from the
\* stored player1Move and player2Move.
C18_CyclicDominance ==
    game = "rockpaperscissors" =>
        /\ \A a \in RPS_Inputs, b \in RPS_Inputs :
              RPS_determineWinner(a, b) =
                  IF a = b THEN "draw"
                  ELSE IF <<a, b>> \in RPS_Beats THEN "P1" ELSE "P2"
        /\ rps.status # "in_progress" => RPS_Resolved(rps)
        /\ \A move \in RPS_Inputs, randomMove \in RPS_Inputs :
              LET t == RPS_makeMove(rps, move, randomMove)
              IN  t.status # "in_progress" => RPS_Resolved(t)

\* a multiplayer round won by P2: rock against scissors
C18_Witness ==
    /\ game = "rockpaperscissors"
    /\ rps.mode = "multiplayer"
    /\ rps.player1Move = "scissors" /\ rps.player2Move = "rock"
    /\ rps.status = "win" /\ rps.winner = "P2"

\* C19: in a singleplayer game one makeMove by P1 from the initial state
\* records both moves and resolves the game, whatever the opponent's move:
\* status win or draw, currentPlayer still P1, no further move accepted.  In
\* both modes the game is terminal as soon as a round is resolved.
C19_SingleRound ==
    game = "rockpaperscissors" =>
        /\ (rps.mode = "singleplayer" /\ rps.status = "in_progress") =>
              /\ rps = RPS_resetGame("singleplayer")
              /\ \A move \in RPS_Inputs, randomMove \in RPS_Inputs :
                    LET t == RPS_makeMove(rps, move, randomMove)
                    IN  /\ t.player1Move = move /\ t.player2Move = randomMove
                        /\ t.status \in {"win", "draw"}
                        /\ t.currentPlayer = "P1"
                        /\ \A m2 \in RPS_Inputs, r2 \in RPS_Inputs :
                              RPS_makeMove(t, m2, r2) = t
        /\ (rps.roundWinner # Null) <=> (rps.status \in {"win", "draw"})
        /\ rps.roundWinner # Null =>
              \A move \in RPS_Inputs, randomMove \in RPS_Inputs :
                  RPS_makeMove(rps, move, randomMove) = rps

\* a singleplayer game lost to the opponent's move: the status is win, the
\* winner P2, the turn still P1's
C19_Witness ==
    /\ game = "rockpaperscissors"
    /\ rps.mode = "singleplayer"
    /\ rps.status = "win" /\ rps.winner = "P2" /\ rps.currentPlayer = "P1"


(***************************************************************************)
(* MemoryMatch                                                             *)
(***************************************************************************)

\* the cards that are face-up and not matched
MM_faceUp(board) == {i \in DOMAIN board : board[i].isFlipped /\ ~board[i].isMatched}

\* C20: flipCard returns its input when two cards are already face-up or
\* the target is face-up or matched; otherwise it turns that card, and no
\* other, face-up and appends its index to flippedIndices.  In every
\* reachable state flippedIndices has at most two entries, they differ, and
\* they are the indices of the cards that are face-up and not matched.
C20_FlipCard ==
    game = "memorymatch" =>
        /\ Len(mm.flippedIndices) <= 2
        /\ \A j, k \in 1..Len(mm.flippedIndices) :
              j # k => mm.flippedIndices[j] # mm.flippedIndices[k]
        /\ {mm.flippedIndices[k] : k \in 1..Len(mm.flippedIndices)} = MM_faceUp(mm.board)
        /\ \A index \in MM_Indices :
              IF \/ Len(mm.flippedIndices) >= 2
                 \/ mm.board[index].isFlipped
                 \/ mm.board[index].isMatched
              THEN MM_flipCard(mm, index) = mm
              ELSE /\ MM_flipCard(mm, index).board =
                          [i \in DOMAIN mm.board |->
                              IF i = index
                              THEN [mm.board[i] EXCEPT !.isFlipped = TRUE]
                              ELSE mm.board[i]]
                   /\ MM_flipCard(mm, index).flippedIndices =
                          mm.flippedIndices \o <<index>>
                   /\ MM_flipCard(mm, index) =
                          [mm EXCEPT !.board = MM_flipCard(mm, index).board,
                                     !.flippedIndices =
                                         MM_flipCard(mm, index).flippedIndices]

\* two cards that do not match are face-up beside a matched pair: a third
\* flip is refused
C20_Witness ==
    /\ game = "memorymatch"
    /\ Len(mm.flippedIndices) = 2
    /\ mm.board[mm.flippedIndices[1]].value # mm.board[mm.flippedIndices[2]].value
    /\ \E i \in DOMAIN mm.board : mm.board[i].isMatched
    /\ \E i \in DOMAIN mm.board :
          /\ ~mm.board[i].isFlipped
          /\ MM_flipCard(mm, i) = mm

\* the number of matched pairs on the board
MM_matchedPairs(board) == Cardinality({i \in DOMAIN board : board[i].isMatched}) \div 2

\* C21: checkMatch with exactly two flipped cards marks both matched when
\* their values are equal, keeping them face-up, and turns both face-down
\* when they differ; in both cases flippedIndices is empty afterwards and no
\* other card changes.  A matched card is face-up and no later flipCard or
\* checkMatch changes it.
C21_CheckMatch ==
    game = "memorymatch" =>
        /\ \A i \in DOMAIN mm.board : mm.board[i].isMatched => mm.board[i].isFlipped
        /\ \A i \in DOMAIN mm.board :
              mm.board[i].isMatched =>
                  /\ MM_checkMatch(mm).board[i] = mm.board[i]
                  /\ \A index \in MM_Indices : MM_flipCard(mm, index).board[i] = mm.board[i]
        /\ Len(mm.flippedIndices) = 2 =>
              LET idx1 == mm.flippedIndices[1]
                  idx2 == mm.flippedIndices[2]
                  equal == mm.board[idx1].value = mm.board[idx2].value
                  after == MM_checkMatch(mm)
              IN  /\ after.flippedIndices = <<>>
                  /\ \A i \in DOMAIN mm.board \ {idx1, idx2} : after.board[i] = mm.board[i]
                  /\ DOMAIN after.board = DOMAIN mm.board
                  /\ \A i \in {idx1, idx2} :
                        /\ after.board[i].value = mm.board[i].value
                        /\ after.board[i].id = mm.board[i].id
                        /\ after.board[i].isMatched = equal
                        /\ after.board[i].isFlipped = equal

\* a failed pair has been turned face-down again beside a matched pair
C21_Witness ==
    /\ game = "memorymatch"
    /\ mm.flippedIndices = <<>>
    /\ MM_matchedPairs(mm.board) >= 1
    /\ mm.movesCount > MM_matchedPairs(mm.board)
    /\ \A i \in DOMAIN mm.board : ~mm.board[i].isMatched => ~mm.board[i].isFlipped

\* C22: flipCard never changes movesCount; checkMatch adds exactly one to
\* it when exactly two cards are flipped and returns the state unchanged
\* when zero or one card is flipped; so movesCount, 0 at the start, counts
\* the resolved pairs and is never below the number of matched pairs.
C22_MovesCount ==
    game = "memorymatch" =>
        /\ \A index \in MM_Indices : MM_flipCard(mm, index).movesCount = mm.movesCount
        /\ IF Len(mm.flippedIndices) = 2
           THEN MM_checkMatch(mm).movesCount = mm.movesCount + 1
           ELSE MM_checkMatch(mm) = mm
        /\ mm.movesCount >= MM_matchedPairs(mm.board)
        /\ mm.movesCount = 0 =>
              \A i \in DOMAIN mm.board : ~mm.board[i].isMatched

\* after a matching and a failed pair, one card is face-up: checkMatch
\* does nothing
C22_Witness ==
    /\ game = "memorymatch"
    /\ Len(mm.flippedIndices) = 1
    /\ MM_matchedPairs(mm.board) = 1
    /\ mm.movesCount = 2
    /\ MM_checkMatch(mm) = mm

\* C23: the status is win exactly when every card is matched; flipCard
\* never changes the status, and checkMatch makes it win only by matching
\* the last remaining pair; the matched cards of each value are none or two.
C23_WinIffAllMatched ==
    game = "memorymatch" =>
        /\ mm.status \in {"in_progress", "win"}
        /\ mm.status = "win" <=> \A i \in DOMAIN mm.board : mm.board[i].isMatched
        /\ mm.winner = IF mm.status = "win" THEN "P1" ELSE Null
        /\ \A k \in 1..Len(EMOJIS) :
              Cardinality({i \in DOMAIN mm.board :
                              mm.board[i].isMatched /\ mm.board[i].value = EMOJIS[k]})
                  \in {0, 2}
        /\ \A index \in MM_Indices : MM_flipCard(mm, index).status = mm.status
        /\ (mm.status = "in_progress" /\ MM_checkMatch(mm).status = "win") =>
              /\ Len(mm.flippedIndices) = 2
              /\ mm.board[mm.flippedIndices[1]].value = mm.board[mm.flippedIndices[2]].value
              /\ \A i \in DOMAIN mm.board :
                    ~mm.board[i].isMatched =>
                        i \in {mm.flippedIndices[1], mm.flippedIndices[2]}
        /\ (mm.status = "in_progress" /\ Len(mm.flippedIndices) = 2
                /\ MM_matchedPairs(MM_checkMatch(mm).board) = Len(EMOJIS)) =>
              MM_checkMatch(mm).status = "win"

\* the game has been won after at least one failed pair
C23_Witness ==
    /\ game = "memorymatch"
    /\ mm.status = "win"
    /\ mm.movesCount > Len(EMOJIS)
    /\ \A i \in DOMAIN mm.board : mm.board[i].isMatched

(***************************************************************************)
(* NumberDuel                                                              *)
(***************************************************************************)

\* the hint owed to a guess
NG_Hint(guess, target) ==
    IF guess = target THEN "correct"
    ELSE IF guess < target THEN "higher" ELSE "lower"

\* C24: makeGuess in an in_progress state answers correct exactly for the
\* target, higher exactly for a smaller and lower exactly for a greater
\* guess; a correct guess makes the guesser the winner; the guess is
\* appended to history with its player and hint, right or wrong, and the
\* target stays as it is.  In every reachable state attempts is the length
\* of history and every recorded hint is the one the target calls for.
C24_GuessFeedback ==
    game = "numberguess" =>
        /\ ng.attempts = Len(ng.history)
        /\ \A k \in 1..Len(ng.history) :
              ng.history[k].result = NG_Hint(ng.history[k].guess, ng.targetNumber)
        /\ ng.status = "win" <=>
              (ng.history # <<>> /\ ng.history[Len(ng.history)].guess = ng.targetNumber)
        /\ \A guess \in NG_Inputs :
              LET after == NG_makeGuess(ng, guess)
              IN  /\ after.targetNumber = ng.targetNumber
                  /\ ng.status = "in_progress" =>
                        /\ after.feedback = "correct" <=> guess = ng.targetNumber
                        /\ after.feedback = "higher" <=> guess < ng.targetNumber
                        /\ after.feedback = "lower" <=> guess > ng.targetNumber
                        /\ after.lastGuess = guess
                        /\ after.history =
                               ng.history \o <<[player |-> ng.currentPlayer,
                                                guess |-> guess,
                                                result |-> after.feedback]>>
                        /\ after.attempts = ng.attempts + 1
                        /\ IF guess = ng.targetNumber
                           THEN after.status = "win" /\ after.winner = ng.currentPlayer
                           ELSE after.status = "in_progress" /\ after.winner = Null

\* a guess below and a guess above the target, then the target
C24_Witness ==
    /\ game = "numberguess"
    /\ ng.status = "win"
    /\ Len(ng.history) = 3
    /\ ng.history[1].result = "higher"
    /\ ng.history[2].result = "lower"
    /\ ng.history[3].result = "correct"
    /\ ng.winner = ng.history[3].player

\* C25: in multiplayer mode an incorrect guess passes the turn, so the
\* players recorded in history alternate from P1 on; in singleplayer mode
\* currentPlayer is P1 after every guess; a correct guess leaves
\* currentPlayer as it was.
C25_TurnOrder ==
    game = "numberguess" =>
        /\ \A k \in 1..Len(ng.history) :
              ng.history[k].player =
                  IF ng.mode = "multiplayer" /\ k % 2 = 0 THEN "P2" ELSE "P1"
        /\ ng.mode = "singleplayer" => ng.currentPlayer = "P1"
        /\ (ng.mode = "multiplayer" /\ ng.status = "in_progress") =>
              ng.currentPlayer = IF Len(ng.history) % 2 = 0 THEN "P1" ELSE "P2"
        /\ ng.status = "in_progress" =>
              \A guess \in NG_Inputs :
                  NG_makeGuess(ng, guess).currentPlayer =
                      IF guess # ng.targetNumber /\ ng.mode = "multiplayer"
                      THEN OtherPlayer(ng.currentPlayer)
                      ELSE ng.currentPlayer

\* P2 has guessed the target with the second guess of a multiplayer game
C25_Witness ==
    /\ game = "numberguess"
    /\ ng.mode = "multiplayer"
    /\ Len(ng.history) = 2
    /\ ng.history[1].player = "P1" /\ ng.history[2].player = "P2"
    /\ ng.status = "win" /\ ng.winner = "P2" /\ ng.currentPlayer = "P2"

(***************************************************************************)
(* Hangman                                                                 *)
(***************************************************************************)

\* the letters a guess is tried with: both cases of the alphabet
WG_Letters ==
    {UPPER_CASE[k] : k \in 1..Len(UPPER_CASE)} \cup {LOWER_CASE[k] : k \in 1..Len(LOWER_CASE)}

\* the guessed letters that do not occur in the target word
WG_misses(state) ==
    {k \in 1..Len(state.guessedLetters) :
        ~includes(state.targetWord, state.guessedLetters[k])}

\* every character of the target word has been guessed
WG_revealed(state) ==
    \A k \in 1..Len(state.targetWord) :
        includes(state.guessedLetters, state.targetWord[k])

\* C26: makeGuess with a letter that is already among guessedLetters, in
\* either case, returns the state unchanged, so a repeated wrong letter
\* costs no second attempt; guessedLetters never holds a letter twice.
C26_RepeatedLetter ==
    game = "wordguess" =>
        /\ \A j, k \in 1..Len(wg.guessedLetters) :
              j # k => wg.guessedLetters[j] # wg.guessedLetters[k]
        /\ \A letter \in WG_Letters :
              includes(wg.guessedLetters, toUpperCase(letter)) =>
                  WG_makeGuess(wg, letter) = wg

\* a wrong letter has been guessed in a game that is still open: guessing
\* it again costs nothing
C26_Witness ==
    /\ game = "wordguess"
    /\ wg.status = "in_progress"
    /\ wg.remainingAttempts < wg.maxAttempts
    /\ \E k \in WG_misses(wg) : WG_makeGuess(wg, wg.guessedLetters[k]) = wg

\* C27: a new letter that is not in the target word takes exactly one
\* attempt, a new letter that is in it takes none.  In every reachable
\* state remainingAttempts is maxAttempts less the number of guessed
\* letters absent from the word, lies in 0..maxAttempts, and is 0 exactly
\* when the status is lose.
C27_Attempts ==
    game = "wordguess" =>
        /\ wg.remainingAttempts = wg.maxAttempts - Cardinality(WG_misses(wg))
        /\ wg.remainingAttempts \in 0..wg.maxAttempts
        /\ wg.status = "lose" <=> wg.remainingAttempts = 0
        /\ wg.status = "in_progress" =>
              \A letter \in WG_Letters :
                  ~includes(wg.guessedLetters, toUpperCase(letter)) =>
                      WG_makeGuess(wg, letter).remainingAttempts =
                          IF includes(wg.targetWord, toUpperCase(letter))
                          THEN wg.remainingAttempts
                          ELSE wg.remainingAttempts - 1

\* the sixth wrong letter has ended a game in which right letters were
\* guessed as well
C27_Witness ==
    /\ game = "wordguess"
    /\ wg.status = "lose"
    /\ wg.remainingAttempts = 0
    /\ Len(wg.guessedLetters) > wg.maxAttempts

\* C28: the status is win exactly when every character of the target word
\* is among guessedLetters; makeGuess declares the win on the guess that
\* supplies the last missing letter, however often that letter occurs, and
\* on no other guess.
C28_WinIffRevealed ==
    game = "wordguess" =>
        /\ wg.status = "win" <=> WG_revealed(wg)
        /\ wg.winner = IF wg.status = "win" THEN "P1" ELSE Null
        /\ wg.status = "in_progress" =>
              \A letter \in WG_Letters :
                  LET after == WG_makeGuess(wg, letter)
                  IN  after.status = "win" <=>
                          /\ includes(wg.targetWord, toUpperCase(letter))
                          /\ \A k \in 1..Len(wg.targetWord) :
                                \/ wg.targetWord[k] = toUpperCase(letter)
                                \/ includes(wg.guessedLetters, wg.targetWord[k])

\* a word with a letter at several positions has been won with fewer right
\* guesses than it has positions, after a wrong guess
C28_Witness ==
    /\ game = "wordguess"
    /\ wg.status = "win"
    /\ Len(wg.guessedLetters) - Cardinality(WG_misses(wg)) < Len(wg.targetWord)
    /\ WG_misses(wg) # {}

(***************************************************************************)
(* WordleClone                                                             *)
(***************************************************************************)

\* the number of positions of `word` that hold the letter x
TW_occurrences(word, x) == Cardinality({k \in 1..Len(word) : word[k] = x})

\* the smaller of two numbers
TW_min(a, b) == IF a <= b THEN a ELSE b

\* the reference scoring: a position that equals the target is correct; any
\* other position is present while the target has unmatched copies of its
\* letter left for it, counted from the left, and absent otherwise
TW_Reference(target, guess) ==
    [i \in 1..Len(guess) |->
        IF guess[i] = target[i] THEN "correct"
        ELSE IF Cardinality({j \in 1..(i - 1) :
                                guess[j] = guess[i] /\ guess[j] # target[j]})
                    < Cardinality({k \in 1..Len(target) :
                                      target[k] = guess[i] /\ guess[k] # target[k]})
             THEN "present"
             ELSE "absent"]

\* C29: for a target and a guess of equal length the row of
\* evaluateTurkishWordleGuess marks position i correct exactly when the
\* guess and the target agree there; for every letter the positions holding
\* it that are marked correct or present number the smaller of its
\* occurrences in the guess and in the target; the row is that of the
\* reference scoring, and a guess equal to the target is correct throughout.
C29_Scoring ==
    (game = "turkishwordle" /\ tw.guesses # <<>>) =>
        LET target == tw.targetWord
            guess == tw.currentGuess
            row == tw.guesses[1]
        IN  /\ Len(row) = Len(guess)
            /\ \A i \in 1..Len(guess) :
                  /\ row[i].char = guess[i]
                  /\ row[i].feedback = "correct" <=> guess[i] = target[i]
                  /\ row[i].feedback = TW_Reference(target, guess)[i]
            /\ \A x \in TW_EvalLetters :
                  Cardinality({i \in 1..Len(guess) :
                                  /\ guess[i] = x
                                  /\ row[i].feedback \in {"correct", "present"}})
                      = TW_min(TW_occurrences(guess, x), TW_occurrences(target, x))
            /\ guess = target => \A i \in 1..Len(guess) : row[i].feedback = "correct"

\* the guess MAMA has been scored against the target ALMA: the first A of
\* the guess is present, the second correct, the first M absent
C29_Witness ==
    /\ game = "turkishwordle"
    /\ tw.targetWord = W_ALMA
    /\ tw.currentGuess = W_MAMA
    /\ Len(tw.guesses) = 1
    /\ tw.guesses[1][1].feedback = "absent"
    /\ tw.guesses[1][2].feedback = "present"
    /\ tw.guesses[1][3].feedback = "correct"
    /\ tw.guesses[1][4].feedback = "correct"

\* the current guess is one that submitGuess refuses
TW_refused(state) ==
    \/ Len(state.currentGuess) # state.wordLength
    \/ ~includes(ALLOWED_WORDS_TR, state.currentGuess)

\* C30: while the game is in progress, submitGuess with a current guess of
\* another length than the word length, or one that is not in the allowed
\* word list, changes nothing but errorMessage, which it sets: guesses,
\* currentAttemptIndex, status, winner and currentGuess stay, and
\* submitting again gives the same state, so no attempt is ever consumed.
\* Once the game is over submitGuess returns the state as it is.
C30_RejectedGuess ==
    game = "turkishwordle" =>
        /\ tw.currentGuess = toLocaleUpperCase(tw.currentGuess)
        /\ tw.status # "in_progress" => submitGuess(tw) = tw
        /\ (tw.status = "in_progress" /\ TW_refused(tw)) =>
              LET after == submitGuess(tw)
              IN  /\ after = [tw EXCEPT !.errorMessage = after.errorMessage]
                  /\ after.errorMessage # Null
                  /\ submitGuess(after) = after
        /\ tw.errorMessage # Null => (tw.status = "in_progress" /\ TW_refused(tw))

\* after an accepted guess, a word of the right length that is not in the
\* list has been refused
C30_Witness ==
    /\ game = "turkishwordle"
    /\ tw.status = "in_progress"
    /\ Len(tw.guesses) >= 1
    /\ Len(tw.currentGuess) = tw.wordLength
    /\ tw.errorMessage = "Gecersiz kelime"
    /\ submitGuess(tw) = tw

\* C31: an accepted guess equal to the target makes the status win, also as
\* the last allowed attempt; an accepted guess that differs from the target
\* makes it lose exactly when it is the maxAttempts-th accepted guess and
\* leaves it in_progress otherwise.  In every reachable state
\* currentAttemptIndex is the number of rows in guesses, at most
\* maxAttempts, and below maxAttempts while the status is in_progress.
C31_Outcome ==
    game = "turkishwordle" =>
        /\ tw.currentAttemptIndex = Len(tw.guesses)
        /\ Len(tw.guesses) <= tw.maxAttempts
        /\ tw.status = "in_progress" => Len(tw.guesses) < tw.maxAttempts
        /\ tw.status = "lose" => Len(tw.guesses) = tw.maxAttempts
        /\ tw.status \in {"in_progress", "win", "lose"}
        /\ (tw.status = "in_progress" /\ ~TW_refused(tw)) =>
              LET after == submitGuess(tw)
              IN  /\ Len(after.guesses) = Len(tw.guesses) + 1
                  /\ after.currentAttemptIndex = tw.currentAttemptIndex + 1
                  /\ after.status =
                        IF tw.currentGuess = tw.targetWord THEN "win"
                        ELSE IF Len(tw.guesses) + 1 = tw.maxAttempts THEN "lose"
                        ELSE "in_progress"

\* the target has been found with the last allowed attempt
C31_Witness ==
    /\ game = "turkishwordle"
    /\ tw.status = "win"
    /\ Len(tw.guesses) = tw.maxAttempts
    /\ tw.currentAttemptIndex = tw.maxAttempts

(***************************************************************************)
(* GeoQuiz                                                                 *)
(***************************************************************************)

\* C32: makeGuess in an in_progress state adds exactly one to round and one
\* to score exactly when the choice equals the current location's name; the
\* game becomes terminal exactly on the guess that takes round past
\* totalRounds, the totalRounds-th guess; in every reachable state
\* score <= round - 1 <= totalRounds.
C32_RoundAndScore ==
    game = "tinygeoguess" =>
        /\ geo.score <= geo.round - 1
        /\ geo.round - 1 <= geo.totalRounds
        /\ geo.status = "in_progress" <=> geo.round <= geo.totalRounds
        /\ geo.status = "in_progress" =>
              \A guess \in GEO_Inputs(geo), nextLocation \in GEO_Locations :
                  LET after == GEO_makeGuess(geo, guess, nextLocation)
                  IN  /\ after.round = geo.round + 1
                      /\ after.score =
                            IF guess = geo.currentLocation.name
                            THEN geo.score + 1 ELSE geo.score
                      /\ after.status # "in_progress" <=> after.round > geo.totalRounds
                      /\ after.status # "in_progress" <=> geo.round = geo.totalRounds

\* the fifth guess has ended a game with right and wrong answers
C32_Witness ==
    /\ game = "tinygeoguess"
    /\ geo.status = "win"
    /\ geo.round = geo.totalRounds + 1
    /\ geo.score \in 1..(geo.totalRounds - 1)

(***************************************************************************)
(* All games                                                               *)
(***************************************************************************)

\* C33: every transition function other than the initializers and the
\* singleplayer makeMove of Rock-Paper-Scissors returns equal states for
\* equal state and equal action.  The two transition functions that draw a
\* random number are tried with every pair of draws: GeoQuiz makeGuess, and
\* Rock-Paper-Scissors makeMove in multiplayer mode; all others take no
\* draw.
C33_Determinism ==
    /\ game = "tinygeoguess" =>
          \A guess \in GEO_Inputs(geo) :
              \A draw1, draw2 \in GEO_Locations :
                  GEO_makeGuess(geo, guess, draw1) = GEO_makeGuess(geo, guess, draw2)
    /\ (game = "rockpaperscissors" /\ rps.mode = "multiplayer") =>
          \A move \in RPS_Inputs :
              \A draw1, draw2 \in RPS_Inputs :
                  RPS_makeMove(rps, move, draw1) = RPS_makeMove(rps, move, draw2)

\* coordinates one past each end of the Battleship grid included
BS_AnyCoord == -1..GRID_SIZE

\* C34: no transition function raises an error, whatever the payload: not
\* MemoryMatch flipCard for an index outside the board, not Battleship
\* placeShip and fireShot for a row or column outside the grid; TicTacToe
\* and ConnectFour makeMove return the unchanged state for an index or a
\* column outside the board.
C34_Totality ==
    /\ game = "tictactoe" =>
          \A index \in {-1, TTT_CELLS} : TTT_makeMove(ttt, index) = ttt
    /\ game = "fourinarow" =>
          \A colIndex \in {-1, COLS} : C4_makeMove(c4, colIndex) = c4
    /\ game = "memorymatch" =>
          \A index \in -1..(2 * Len(EMOJIS)) : ~MM_flipCard_raises(mm, index)
    /\ game = "battleship" =>
          \A row \in BS_AnyCoord, col \in BS_AnyCoord :
              /\ ~BS_placeShip_raises(bs, row, col)
              /\ ~BS_fireShot_raises(bs, row, col)

\* C35: a rejected action applied twice gives the state it gives applied
\* once, message fields included: a move to an occupied cell or a full
\* column, a flip of a card that is face-up or matched, a repeated letter,
\* a word of the wrong length or outside the word list, a ship placement
\* that does not fit, finishSetup with a ship unplaced, a shot at a cell
\* already fired upon.
C35_RejectionIdempotent ==
    /\ game = "tictactoe" =>
          \A index \in 0..(TTT_CELLS - 1) :
              ttt.board[index] # Null =>
                  TTT_makeMove(TTT_makeMove(ttt, index), index) = TTT_makeMove(ttt, index)
    /\ game = "fourinarow" =>
          \A colIndex \in 0..(COLS - 1) :
              c4.board[0][colIndex] # Null =>
                  C4_makeMove(C4_makeMove(c4, colIndex), colIndex) = C4_makeMove(c4, colIndex)
    /\ game = "memorymatch" =>
          \A index \in MM_Indices :
              (mm.board[index].isFlipped \/ mm.board[index].isMatched) =>
                  MM_flipCard(MM_flipCard(mm, index), index) = MM_flipCard(mm, index)
    /\ game = "wordguess" =>
          \A letter \in WG_Letters :
              includes(wg.guessedLetters, toUpperCase(letter)) =>
                  WG_makeGuess(WG_makeGuess(wg, letter), letter) = WG_makeGuess(wg, letter)
    /\ (game = "turkishwordle" /\ TW_refused(tw)) =>
          submitGuess(submitGuess(tw)) = submitGuess(tw)
    /\ game = "battleship" =>
          /\ \A rc \in BS_Cells :
                LET placed == BS_placeShip(bs, rc[1], rc[2])
                IN  (placed.p1 = bs.p1 /\ placed.p2 = bs.p2) =>
                        BS_placeShip(placed, rc[1], rc[2]) = placed
          /\ (\/ bs.phase = "setup_p1" /\ BS_someUnplaced(bs.p1.ships)
              \/ bs.phase = "setup_p2" /\ BS_someUnplaced(bs.p2.ships)) =>
                BS_finishSetup(BS_finishSetup(bs)) = BS_finishSetup(bs)
          /\ bs.phase = "in_progress" =>
                \A rc \in BS_Cells :
                    LET shooter == IF bs.currentPlayer = "P1" THEN bs.p1 ELSE bs.p2
                        shot == BS_fireShot(bs, rc[1], rc[2])
                    IN  shooter.shots[rc[1]][rc[2]] # "empty" =>
                            BS_fireShot(shot, rc[1], rc[2]) = shot

\* a word that is too short has been refused after an accepted guess
C35_Witness ==
    /\ game = "turkishwordle"
    /\ tw.status = "in_progress"
    /\ Len(tw.guesses) >= 1
    /\ tw.currentGuess # <<>>
    /\ Len(tw.currentGuess) < tw.wordLength
    /\ tw.errorMessage = "Kelime cok kisa"
    /\ submitGuess(tw) = tw

(***************************************************************************)
(* ConnectFour                                                             *)
(***************************************************************************)

\* C36: on every board reached through makeMove the top row is full
\* exactly when every cell is occupied; so the status is draw only on a
\* completely filled board without a run of four, and in every reachable
\* in_progress state some column accepts a piece.
C36_TopRowDraw ==
    game = "fourinarow" =>
        /\ C4_checkDraw(c4.board) <=> C4_full(c4.board)
        /\ c4.status = "draw" =>
              (C4_full(c4.board) /\ C4_checkWinner(c4.board) = Null)
        /\ c4.status = "in_progress" =>
              \E colIndex \in 0..(COLS - 1) :
                  /\ c4.board[0][colIndex] = Null
                  /\ C4_makeMove(c4, colIndex) # c4
        /\ \A colIndex \in 0..(COLS - 1) :
              C4_makeMove(c4, colIndex).status = "draw" =>
                  C4_full(C4_makeMove(c4, colIndex).board)

\* six columns are full and the game is open: the last column takes the
\* piece that fills the board and draws the game
C36_Witness ==
    /\ game = "fourinarow"
    /\ c4.status = "in_progress"
    /\ Cardinality({c \in 0..(COLS - 1) : c4.board[0][c] = Null}) = 1
    /\ \E colIndex \in 0..(COLS - 1) : C4_makeMove(c4, colIndex).status = "draw"

(***************************************************************************)
(* Battleship: moving a ship, winner, termination                          *)
(***************************************************************************)

\* the cells of a span of `size` cells from (row, col)
BS_spanAt(row, col, orientation, size) ==
    {IF orientation = "horizontal" THEN <<row, col + i>> ELSE <<row + i, col>> :
        i \in 0..(size - 1)}

\* C37: placeShip for a selected ship that is already placed accepts the
\* new span exactly when it lies in the grid and each of its cells is empty
\* or one of the ship's own prior cells.  On success the new span holds the
\* ship, the prior cells outside it are empty, every other cell and ship is
\* as before.  Otherwise grid and ships are as before, the ship at its
\* prior position, and only lastActionMessage changes.
C37_MoveShip ==
    (game = "battleship" /\ bs.phase \in {"setup_p1", "setup_p2"}
         /\ bs.setup.selectedShipId # Null) =>
        LET isP1 == bs.phase = "setup_p1"
            side == IF isP1 THEN bs.p1 ELSE bs.p2
            k == BS_findIndex(side.ships, bs.setup.selectedShipId)
            ship == side.ships[k]
            oldSpan == BS_span(ship)
        IN  ship.placed =>
                \A rc \in BS_Cells :
                    LET newSpan == BS_spanAt(rc[1], rc[2], bs.setup.orientation, ship.size)
                        fits == /\ newSpan \subseteq BS_Cells
                                /\ \A cell \in newSpan :
                                      \/ side.grid[cell[1]][cell[2]] = "empty"
                                      \/ cell \in oldSpan
                        after == BS_placeShip(bs, rc[1], rc[2])
                        moved == IF isP1 THEN after.p1 ELSE after.p2
                    IN  IF fits
                        THEN /\ moved.grid =
                                   [r \in 0..(GRID_SIZE - 1) |-> [c \in 0..(GRID_SIZE - 1) |->
                                       IF <<r, c>> \in newSpan THEN "ship"
                                       ELSE IF <<r, c>> \in oldSpan THEN "empty"
                                       ELSE side.grid[r][c]]]
                             /\ BS_span(moved.ships[k]) = newSpan
                             /\ moved.ships[k].placed
                             /\ \A j \in 1..Len(side.ships) :
                                   j # k => moved.ships[j] = side.ships[j]
                             /\ moved.shots = side.shots
                             /\ after = [BS_withPlayer(bs, isP1, moved)
                                            EXCEPT !.lastActionMessage = Null]
                        ELSE after = [bs EXCEPT !.lastActionMessage = "Invalid placement!"]

\* the selected ship is placed beside another ship; one move of it runs
\* across its own prior cells and is accepted, another runs into the other
\* ship and is refused
C37_Witness ==
    /\ game = "battleship"
    /\ bs.phase = "setup_p1"
    /\ bs.setup.selectedShipId # Null
    /\ LET k == BS_findIndex(bs.p1.ships, bs.setup.selectedShipId)
           ship == bs.p1.ships[k]
       IN  /\ ship.placed
           /\ \E j \in 1..Len(bs.p1.ships) : j # k /\ bs.p1.ships[j].placed
           /\ \E rc \in BS_Cells :
                 LET newSpan == BS_spanAt(rc[1], rc[2], bs.setup.orientation, ship.size)
                 IN  /\ newSpan \cap BS_span(ship) # {}
                     /\ newSpan # BS_span(ship)
                     /\ BS_placeShip(bs, rc[1], rc[2]).lastActionMessage = Null
           /\ \E rc \in BS_Cells :
                 /\ BS_spanAt(rc[1], rc[2], bs.setup.orientation, ship.size)
                        \subseteq BS_Cells
                 /\ BS_placeShip(bs, rc[1], rc[2]).lastActionMessage = "Invalid placement!"
                 /\ BS_placeShip(bs, rc[1], rc[2]).p1 = bs.p1

(***************************************************************************)
(* WordleClone: letter case                                                *)
(***************************************************************************)

\* every position of the row is marked correct
TW_allCorrect(row) == \A i \in 1..Len(row) : row[i].feedback = "correct"

\* C38: submitGuess makes the status win exactly when the row it appends is
\* marked correct at every position, and no row of guesses is all correct
\* while the status is not win, in whichever case the target word is
\* stored.
C38_CaseConsistency ==
    game = "turkishwordle" =>
        /\ \A k \in 1..Len(tw.guesses) :
              TW_allCorrect(tw.guesses[k]) => tw.status = "win"
        /\ (tw.status = "in_progress" /\ ~TW_refused(tw)) =>
              LET after == submitGuess(tw)
              IN  after.status = "win"
                      <=> TW_allCorrect(after.guesses[Len(after.guesses)])

(***************************************************************************)
(* All games: status and winner                                            *)
(***************************************************************************)

\* C39: in every reachable state of TicTacToe, ConnectFour,
\* Rock-Paper-Scissors, MemoryMatch, NumberDuel, Hangman, Wordle and GeoQuiz
\* the winner is set exactly when the status is win, so it is none while
\* the status is in_progress, draw or lose; in Hangman the word is never
\* complete with remainingAttempts 0; in Battleship the winner is set
\* exactly when the phase is finished.
C39_StatusWinner ==
    /\ game = "tictactoe" => (ttt.winner # Null <=> ttt.status = "win")
    /\ game = "fourinarow" => (c4.winner # Null <=> c4.status = "win")
    /\ game = "rockpaperscissors" => (rps.winner # Null <=> rps.status = "win")
    /\ game = "memorymatch" => (mm.winner # Null <=> mm.status = "win")
    /\ game = "numberguess" => (ng.winner # Null <=> ng.status = "win")
    /\ game = "wordguess" =>
          /\ wg.winner # Null <=> wg.status = "win"
          /\ ~(WG_revealed(wg) /\ wg.remainingAttempts = 0)
    /\ game = "turkishwordle" => (tw.winner # Null <=> tw.status = "win")
    /\ game = "tinygeoguess" => (geo.winner # Null <=> geo.status = "win")
    /\ game = "battleship" => (bs.winner # Null <=> bs.phase = "finished")

\* a multiplayer round of Rock-Paper-Scissors has ended without a winner
C39_Witness ==
    /\ game = "rockpaperscissors"
    /\ rps.mode = "multiplayer"
    /\ rps.status = "draw"
    /\ rps.winner = Null

\* the number of cells a side has fired upon
BS_firedCount(side) == Cardinality(BS_fired(side.shots))

\* while the game is in progress the player to move has a cell left to fire
\* upon, the two players have fired in turn, and a shot at any such cell
\* uses up that cell and no other
BS_ShotsRunOut ==
    game = "battleship" =>
        /\ BS_firedCount(bs.p1) + BS_firedCount(bs.p2) <= 2 * GRID_SIZE * GRID_SIZE - 1
        /\ bs.phase = "in_progress" =>
              LET isP1 == bs.currentPlayer = "P1"
                  shooter == IF isP1 THEN bs.p1 ELSE bs.p2
              IN  /\ BS_firedCount(shooter) < GRID_SIZE * GRID_SIZE
                  /\ BS_firedCount(bs.p1) =
                         BS_firedCount(bs.p2) + (IF isP1 THEN 0 ELSE 1)
                  /\ \A rc \in BS_cellsWith(shooter.shots, "empty") :
                        LET after == BS_fireShot(bs, rc[1], rc[2])
                            fired == IF isP1 THEN after.p1 ELSE after.p2
                        IN  /\ fired.shots[rc[1]][rc[2]] # "empty"
                            /\ BS_firedCount(fired) = BS_firedCount(shooter) + 1
                            /\ BS_firedCount(IF isP1 THEN after.p2 ELSE after.p1) =
                                   BS_firedCount(IF isP1 THEN bs.p2 ELSE bs.p1)

\* C40: in every reachable in_progress state the player to move has a cell
\* not yet fired upon, each accepted shot uses up one such cell, no player
\* fires more than 36 accepted shots and both together at most 71; and when
\* both players keep firing at cells not yet fired upon, a game in progress
\* reaches the phase finished.
C40_Finishes ==
    /\ []BS_ShotsRunOut
    /\ (game = "battleship" /\ bs.phase = "in_progress") ~> (bs.phase = "finished")

\* the game has ended with the 71st shot: P1 has fired upon all 36 cells
\* and P2 upon 35
C40_Witness ==
    /\ game = "battleship"
    /\ bs.phase = "finished"
    /\ bs.winner = "P1"
    /\ BS_firedCount(bs.p1) = GRID_SIZE * GRID_SIZE
    /\ BS_firedCount(bs.p2) = GRID_SIZE * GRID_SIZE - 1

=============================================================================
